---------------------------- MODULE Spec2Model ----------------------------
(***************************************************************************)
(* A model of the HED language server (hed-standard/hed-lsp): the          *)
(* debounced validation scheduler of the server entry point, the schema    *)
(* manager's load cache, the embeddings manager's lazy model load and      *)
(* dual-embedding search, and the validator's string utilities.            *)
(*                                                                         *)
(* Strings are sequences of one-character strings, so that trimming,       *)
(* splitting, case folding and searching are computed, not assumed.        *)
(***************************************************************************)
EXTENDS Integers, Sequences, FiniteSets, TLC

VARIABLES
    \* ---- pure functions (one application per behaviour)
    strOp,        \* "none" before the call, then the function applied
    strIn,        \* the string given to the function
    strTag,       \* the function's second argument (a tag name, a vocabulary)
    strOut,       \* the function's result
    \* ---- schemaManager: SchemaManager
    schemaCache,      \* Map<string, Schemas>: canonical version -> vocabulary
    currentVersion,   \* the configured version
    schemaCalls,      \* the getSchema calls made so far, in call order
    builds,           \* the invocations of buildSchemasFromVersion, in order
    \* ---- server.ts: the connection's state
    hasConfigurationCapability,
    globalSettings,
    openDocs,         \* the uris the TextDocuments manager holds
    srv,              \* documentSettings, validationDebounceTimers, the event
                      \* loop's pending promises and timers, and the history
    \* ---- embeddings.ts: the EmbeddingsManager singleton
    emb,
    \* ---- schemaManager: version detection; validation passes
    workspaceVersionCache,   \* Map<string, string>: document uri -> version
    datasetFiles,     \* uri -> the dataset_description.json files of the
                      \* directories above the document, nearest first
    val               \* the documents, the validation passes, and the
                      \* diagnostics sent

varsStr == <<strOp, strIn, strTag, strOut>>
varsSchema == <<schemaCache, currentVersion, schemaCalls, builds>>

varsServer == <<hasConfigurationCapability, globalSettings, openDocs, srv>>

varsEmb == <<emb>>

varsVal == <<workspaceVersionCache, datasetFiles, val>>

vars == <<varsStr, varsSchema, varsServer, varsEmb, varsVal>>

Null == <<>>

(***************************************************************************)
(* Characters and JavaScript string primitives                             *)
(***************************************************************************)
UpperCase == <<"A", "B", "C", "D", "E", "F", "G", "H", "I", "J", "K", "L", "M",
               "N", "O", "P", "Q", "R", "S", "T", "U", "V", "W", "X", "Y", "Z">>

LowerCase == <<"a", "b", "c", "d", "e", "f", "g", "h", "i", "j", "k", "l", "m",
               "n", "o", "p", "q", "r", "s", "t", "u", "v", "w", "x", "y", "z">>

\* String.prototype.toLowerCase on one character
LowerChar(c) ==
    IF \E i \in 1..Len(UpperCase) : UpperCase[i] = c
    THEN LowerCase[CHOOSE i \in 1..Len(UpperCase) : UpperCase[i] = c]
    ELSE c

\* String.prototype.toLowerCase
toLowerCase(s) == [i \in 1..Len(s) |-> LowerChar(s[i])]

\* the regular expression class \s, on the characters the model uses
IsWs(c) == c = " "

\* index of the first non-whitespace character at or after i (Len(s)+1 if none)
RECURSIVE SkipWs(_, _)
SkipWs(s, i) ==
    IF i <= Len(s) /\ IsWs(s[i]) THEN SkipWs(s, i + 1) ELSE i

\* index of the last non-whitespace character at or before i (0 if none)
RECURSIVE SkipWsBack(_, _)
SkipWsBack(s, i) ==
    IF i >= 1 /\ IsWs(s[i]) THEN SkipWsBack(s, i - 1) ELSE i

\* String.prototype.trim
trim(s) == SubSeq(s, SkipWs(s, 1), SkipWsBack(s, Len(s)))

\* String.prototype.indexOf(needle, from), 0-based, -1 when absent
RECURSIVE indexOf(_, _, _)
indexOf(hay, needle, from) ==
    IF from + Len(needle) > Len(hay) THEN -1
    ELSE IF SubSeq(hay, from + 1, from + Len(needle)) = needle THEN from
    ELSE indexOf(hay, needle, from + 1)

\* all strings over alphabet A of length at most n
Strs(A, n) == UNION {[1..k -> A] : k \in 0..n}

(***************************************************************************)
(* validation.ts: removePlaceholders                                       *)
(***************************************************************************)
\* /\{[^}]+\}/ tried at index i: the index after the match, 0 when it fails.
\* [^}]+ is greedy and cannot cross a "}", so the match ends at the first "}"
\* after the "{", which must not be the very next character.
RECURSIVE FirstClose(_, _)
FirstClose(s, j) ==
    IF j > Len(s) THEN 0
    ELSE IF s[j] = "}" THEN j
    ELSE FirstClose(s, j + 1)

PlaceholderEnd(s, i) ==
    IF i > Len(s) \/ s[i] # "{" THEN 0
    ELSE LET j == FirstClose(s, i + 1)
         IN  IF j > i + 1 THEN j + 1 ELSE 0

\* a literal character c at index i
At(s, i, c) == i <= Len(s) /\ s[i] = c

\* /c1\s*c2/ tried at index i
Pair(s, i, c1, c2) ==
    IF ~At(s, i, c1) THEN 0
    ELSE LET a == SkipWs(s, i + 1)
         IN  IF At(s, a, c2) THEN a + 1 ELSE 0

\* The patterns of removePlaceholders, in the order the function applies them;
\* each gives the index after the match that starts at i, or 0.
MatchPrecedingComma(s, i) ==         \* /\s*,\s*\{[^}]+\}/
    LET a == SkipWs(s, i)
    IN  IF At(s, a, ",") THEN PlaceholderEnd(s, SkipWs(s, a + 1)) ELSE 0

MatchFollowingComma(s, i) ==         \* /\{[^}]+\}\s*,\s*/
    LET e == PlaceholderEnd(s, i)
    IN  IF e = 0 THEN 0
        ELSE LET a == SkipWs(s, e)
             IN  IF At(s, a, ",") THEN SkipWs(s, a + 1) ELSE 0

Match(p, s, i) ==
    CASE p = "precedingComma" -> MatchPrecedingComma(s, i)
      [] p = "followingComma" -> MatchFollowingComma(s, i)
      [] p = "standalone"     -> PlaceholderEnd(s, i)
      [] p = "doubleComma"    -> Pair(s, i, ",", ",")
      [] p = "groupLeading"   -> Pair(s, i, "(", ",")
      [] p = "groupTrailing"  -> Pair(s, i, ",", ")")
      [] p = "emptyGroup"     -> Pair(s, i, "(", ")")

\* String.prototype.replace(/p/g, repl): leftmost matches, left to right, the
\* replacement text is not scanned again
RECURSIVE ReplaceFrom(_, _, _, _)
ReplaceFrom(p, s, i, repl) ==
    IF i > Len(s) THEN <<>>
    ELSE LET e == Match(p, s, i)
         IN  IF e > i THEN repl \o ReplaceFrom(p, s, e, repl)
             ELSE <<s[i]>> \o ReplaceFrom(p, s, i + 1, repl)

replaceAll(s, p, repl) == ReplaceFrom(p, s, 1, repl)

\* replace(/^\s*,\s*/, '')
stripLeadingComma(s) ==
    LET a == SkipWs(s, 1)
    IN  IF At(s, a, ",") THEN SubSeq(s, SkipWs(s, a + 1), Len(s)) ELSE s

\* /\s*,\s*$/ tried at index i
MatchTrailingComma(s, i) ==
    LET a == SkipWs(s, i)
    IN  At(s, a, ",") /\ SkipWs(s, a + 1) = Len(s) + 1

\* replace(/\s*,\s*$/, ''): the leftmost index where the pattern matches
stripTrailingComma(s) ==
    IF \E i \in 1..Len(s) : MatchTrailingComma(s, i)
    THEN LET i == CHOOSE k \in 1..Len(s) :
                      /\ MatchTrailingComma(s, k)
                      /\ \A m \in 1..(k - 1) : ~MatchTrailingComma(s, m)
         IN  SubSeq(s, 1, i - 1)
    ELSE s

removePlaceholders(hedString) ==
    LET r1 == replaceAll(hedString, "precedingComma", <<>>)
        r2 == replaceAll(r1, "followingComma", <<>>)
        r3 == replaceAll(r2, "standalone", <<>>)
        r4 == replaceAll(r3, "doubleComma", <<",">>)
        r5 == replaceAll(r4, "groupLeading", <<"(">>)
        r6 == replaceAll(r5, "groupTrailing", <<")">>)
        r7 == replaceAll(r6, "emptyGroup", <<>>)
        r8 == stripLeadingComma(r7)
        r9 == stripTrailingComma(r8)
    IN  trim(r9)

(***************************************************************************)
(* validation.ts: findTagInString                                          *)
(***************************************************************************)
\* /[,()]/.test(c)
separators(c) == c \in {",", "(", ")"}

\* the body of the while loop, from the occurrence at `index` (0-based)
RECURSIVE FindTagLoop(_, _, _)
FindTagLoop(hedString, tagName, index) ==
    IF index = -1 THEN Null
    ELSE LET n          == Len(tagName)
             beforeChar == IF index > 0 THEN hedString[index] ELSE ","
             afterChar  == IF index + n < Len(hedString)
                           THEN hedString[index + n + 1] ELSE ","
             beforeOk   == separators(beforeChar) \/ beforeChar = " " \/ index = 0
             afterOk    == \/ separators(afterChar) \/ afterChar = " "
                           \/ afterChar = "/"
                           \/ index + n >= Len(hedString)
         IN  IF beforeOk /\ afterOk THEN <<index, index + n>>
             ELSE FindTagLoop(hedString, tagName,
                      indexOf(toLowerCase(hedString), toLowerCase(tagName), index + 1))

\* findTagInString without the test of the character after the occurrence
RECURSIVE FindTagLoopNoAfter(_, _, _)
FindTagLoopNoAfter(hedString, tagName, index) ==
    IF index = -1 THEN Null
    ELSE LET beforeChar == IF index > 0 THEN hedString[index] ELSE ","
             beforeOk   == separators(beforeChar) \/ beforeChar = " " \/ index = 0
         IN  IF beforeOk THEN <<index, index + Len(tagName)>>
             ELSE FindTagLoopNoAfter(hedString, tagName,
                      indexOf(toLowerCase(hedString), toLowerCase(tagName), index + 1))

findTagInString_noAfterCheck(hedString, tagName) ==
    FindTagLoopNoAfter(hedString, tagName,
                       indexOf(toLowerCase(hedString), toLowerCase(tagName), 0))

findTagInString(hedString, tagName) ==
    FindTagLoop(hedString, tagName,
                indexOf(toLowerCase(hedString), toLowerCase(tagName), 0))

(***************************************************************************)
(* schemaManager: version strings                                          *)
(***************************************************************************)
\* String.prototype.split(c)
RECURSIVE split(_, _)
split(s, c) ==
    IF \E i \in 1..Len(s) : s[i] = c
    THEN LET i == CHOOSE k \in 1..Len(s) :
                      s[k] = c /\ \A m \in 1..(k - 1) : s[m] # c
         IN  <<SubSeq(s, 1, i - 1)>> \o split(SubSeq(s, i + 1, Len(s)), c)
    ELSE <<s>>

\* Array.prototype.join(c)
RECURSIVE join(_, _)
join(parts, c) ==
    IF parts = <<>> THEN <<>>
    ELSE IF Len(parts) = 1 THEN parts[1]
    ELSE parts[1] \o <<c>> \o join(Tail(parts), c)

\* Array.prototype.filter(part => part.length > 0)
RECURSIVE nonEmpty(_)
nonEmpty(parts) ==
    IF parts = <<>> THEN <<>>
    ELSE IF parts[1] = <<>> THEN nonEmpty(Tail(parts))
    ELSE <<parts[1]>> \o nonEmpty(Tail(parts))

\* normalizeVersion that drops the empty parts before trimming them
normalizeVersion_filterFirst(hedVersion) ==
    LET parts == nonEmpty(split(hedVersion, ","))
    IN  join([i \in 1..Len(parts) |-> trim(parts[i])], ",")

\* normalizeVersion of a string: '' for the empty string
normalizeVersion(hedVersion) ==
    LET parts == split(hedVersion, ",")
    IN  join(nonEmpty([i \in 1..Len(parts) |-> trim(parts[i])]), ",")

DEFAULT_BASE_VERSION == <<"8", ".", "4", ".", "0">>
LIBRARY_SCHEMAS == <<<<"s", "c", ":", "s", "c", "o", "r", "e", "_", "2", ".", "1", ".", "0">>, <<"l", "a", ":", "l", "a", "n", "g", "_", "1", ".", "1", ".", "0">>>>
DEFAULT_FULL_VERSION == join(<<DEFAULT_BASE_VERSION>> \o LIBRARY_SCHEMAS, ",")

\* String.prototype.includes(c)
includes(s, c) == \E i \in 1..Len(s) : s[i] = c

\* the value setCurrentVersion(version) leaves in currentVersion
setCurrentVersion(version) ==
    LET normalized == normalizeVersion(version)
    IN  IF normalized = <<>> THEN DEFAULT_FULL_VERSION
        ELSE IF ~includes(normalized, ":")
             THEN join(<<normalized>> \o LIBRARY_SCHEMAS, ",")
             ELSE normalized

(***************************************************************************)
(* schemaManager: SchemaManager.getSchema                                  *)
(***************************************************************************)
\* the version strings callers pass to getSchema and setCurrentVersion
V830 == <<"8", ".", "3", ".", "0">>
VersionInputs ==
    { <<>>,
      V830,
      <<" ", "8", ".", "3", ".", "0", " ">>,
      <<"8", ".", "3", ".", "0", ",", ",">>,
      <<"8", ".", "3", ".", "0", ",", " ", "s", "c", ":", "s", "c", "o", "r", "e", "_", "2", ".", "1", ".", "0">> }

MaxSchemaCalls == 2     \* getSchema calls in one behaviour

\* Map.prototype.set
MapSet(m, k, v) == [x \in DOMAIN m \cup {k} |-> IF x = k THEN v ELSE m[x]]
EmptyMap == [x \in {} |-> 0]

\* the cache key: the raw version string, not normalized
normalizedVersion_raw(version, current) ==
    IF version # <<>> THEN version ELSE current

\* const normalizedVersion = normalizeVersion(version) || this.currentVersion
normalizedVersion(version, current) ==
    IF normalizeVersion(version) # <<>> THEN normalizeVersion(version) ELSE current

\* the cache after a failed load, wrongly keeping an empty vocabulary (0)
cacheAfterFailure_empty(cache, nv) == MapSet(cache, nv, 0)

\* the catch block of getSchema logs and rethrows: the cache is left as it is
cacheAfterFailure(cache, nv) == cache

InitSchemaManager ==
    /\ schemaCache = EmptyMap
    /\ currentVersion = DEFAULT_FULL_VERSION
    /\ schemaCalls = <<>>
    /\ builds = <<>>

\* getSchema(version) up to its first await: a cache hit returns, a miss
\* invokes buildSchemasFromVersion(normalizedVersion) and suspends.
\* `version` left out is the default parameter, this.currentVersion.
GetSchemaWith(version) ==
    /\ Len(schemaCalls) < MaxSchemaCalls
    /\ LET nv == normalizedVersion(version, currentVersion)
       IN  IF nv \in DOMAIN schemaCache
           THEN /\ schemaCalls' = Append(schemaCalls,
                      [version |-> version, nv |-> nv, pc |-> "returned",
                       build |-> 0, result |-> schemaCache[nv]])
                /\ UNCHANGED builds
           ELSE /\ builds' = Append(builds, [arg |-> nv, state |-> "pending"])
                /\ schemaCalls' = Append(schemaCalls,
                      [version |-> version, nv |-> nv, pc |-> "building",
                       build |-> Len(builds) + 1, result |-> 0])
    /\ UNCHANGED <<schemaCache, currentVersion>>

GetSchema == \E version \in VersionInputs \cup {currentVersion} : GetSchemaWith(version)

\* buildSchemasFromVersion resolves: the call stores the vocabulary (named by
\* the invocation that built it) under its key and returns it
BuildResolves(c) ==
    /\ schemaCalls[c].pc = "building"
    /\ LET b == schemaCalls[c].build
       IN  /\ builds' = [builds EXCEPT ![b].state = "ok"]
           /\ schemaCache' = MapSet(schemaCache, schemaCalls[c].nv, b)
           /\ schemaCalls' = [schemaCalls EXCEPT ![c].pc = "returned", ![c].result = b]
    /\ UNCHANGED currentVersion

\* buildSchemasFromVersion rejects: the call logs the error and rethrows it
BuildRejects(c) ==
    /\ schemaCalls[c].pc = "building"
    /\ LET b == schemaCalls[c].build
       IN  /\ builds' = [builds EXCEPT ![b].state = "failed"]
           /\ schemaCache' = cacheAfterFailure(schemaCache, schemaCalls[c].nv)
           /\ schemaCalls' = [schemaCalls EXCEPT ![c].pc = "threw", ![c].result = b]
    /\ UNCHANGED currentVersion

BuildReturns == \E c \in 1..Len(schemaCalls) : BuildResolves(c) \/ BuildRejects(c)

SetCurrentVersion ==
    /\ \E version \in VersionInputs : currentVersion' = setCurrentVersion(version)
    /\ UNCHANGED <<schemaCache, schemaCalls, builds>>

\* clearCache()
ClearCache ==
    /\ schemaCache' = EmptyMap
    /\ UNCHANGED <<currentVersion, schemaCalls, builds>>


(***************************************************************************)
(* server.ts: settings, debounced validation                               *)
(***************************************************************************)
Uris == {"file:///a.json", "file:///b.tsv"}

\* document.uri.endsWith('.json')
IsJson(uri) == uri = "file:///a.json"

MaxDebounceCalls == 3   \* validateDocumentDebounced calls in one behaviour
MaxRequests == 1        \* workspace/configuration requests in one behaviour
MaxWaiting == 2         \* continuations suspended at one time

\* the settings a client or a configuration change supplies
SettingsValues ==
    {[validateOnChange |-> TRUE, schemaVersion |-> <<>>,
      enableSemanticSearch |-> FALSE],
     [validateOnChange |-> FALSE, schemaVersion |-> <<>>,
      enableSemanticSearch |-> FALSE],
     [validateOnChange |-> TRUE, schemaVersion |-> V830,
      enableSemanticSearch |-> FALSE]}

defaultSettings ==
    [validateOnChange |-> TRUE, schemaVersion |-> DEFAULT_BASE_VERSION,
     enableSemanticSearch |-> FALSE]

\* Field srv is a record:
\*   documentSettings          uri -> the cached settings promise (0: none)
\*   promises                  the configuration requests: state and value
\*   waiting                   continuations suspended on a settings promise,
\*                             in the order they were registered
\*   validationDebounceTimers  uri -> the timer id kept for it (0: none)
\*   liveTimers                the timers set and neither fired nor cleared
\*   timerCount, callCount     ids handed out so far
\*   lastCall                  uri -> the latest validateDocumentDebounced call
\*   closes                    uri -> how many times it has been closed
\*   fired                     history: the debounce callbacks that have run
\*   passes                    history: the validation passes started
InitServerState ==
    [documentSettings |-> [u \in Uris |-> 0],
     promises |-> <<>>,
     waiting |-> <<>>,
     validationDebounceTimers |-> [u \in Uris |-> 0],
     liveTimers |-> {},
     timerCount |-> 0,
     callCount |-> 0,
     lastCall |-> [u \in Uris |-> 0],
     closes |-> [u \in Uris |-> 0],
     fired |-> {},
     passes |-> {}]

\* clearTimeout(id)
clearTimeout(S, id) ==
    [S EXCEPT !.liveTimers = {t \in S.liveTimers : t.id # id}]

\* validateDocumentDebounced after `await getDocumentSettings(uri)`
DebouncedResume(S, uri, call, epoch, settings) ==
    IF ~settings.validateOnChange THEN S
    ELSE LET id == S.timerCount + 1
         IN  [S EXCEPT !.timerCount = id,
                       !.liveTimers = @ \cup {[id |-> id, uri |-> uri,
                                               call |-> call, epoch |-> epoch]},
                       !.validationDebounceTimers[uri] = id]

\* validateDocumentNow after `await getDocumentSettings(document.uri)`: the
\* pass over the document starts
NowResume(S, uri, source) ==
    [S EXCEPT !.passes = @ \cup {[uri |-> uri, source |-> source]}]

\* the continuation w, resumed with the settled promise pr
Resume(S, w, pr) ==
    IF pr.state = "rejected" THEN S      \* the await throws
    ELSE IF w.kind = "debounced"
         THEN DebouncedResume(S, w.uri, w.call, w.epoch, pr.value)
         ELSE NowResume(S, w.uri, w.source)

\* `await getDocumentSettings(resource)` by the continuation w
AwaitSettings(S, w, hasCap, global) ==
    IF ~hasCap
    THEN Resume(S, w, [state |-> "fulfilled", value |-> global])
    ELSE LET cached == S.documentSettings[w.uri]
             p      == IF cached # 0 THEN cached ELSE Len(S.promises) + 1
             S1     == IF cached # 0 THEN S
                       ELSE [S EXCEPT !.documentSettings[w.uri] = p,
                                      !.promises = Append(@, [state |-> "pending",
                                                              value |-> defaultSettings])]
         IN  IF S1.promises[p].state = "pending"
             THEN [S1 EXCEPT !.waiting = Append(@, [w EXCEPT !.promise = p])]
             ELSE Resume(S1, w, S1.promises[p])

\* validateDocumentDebounced(document)
validateDocumentDebounced(S, uri, hasCap, global) ==
    LET call          == S.callCount + 1
        existingTimer == S.validationDebounceTimers[uri]
        S1 == [S EXCEPT !.callCount = call, !.lastCall[uri] = call]
        S2 == IF existingTimer # 0 THEN clearTimeout(S1, existingTimer) ELSE S1
    IN  AwaitSettings(S2, [kind |-> "debounced", uri |-> uri, call |-> call,
                           epoch |-> S.closes[uri], source |-> "change",
                           promise |-> 0],
                      hasCap, global)

\* validateDocumentNow that goes through the debounce timer like a content
\* change
validateDocumentNow_debounced(S, uri, source, hasCap, global) ==
    validateDocumentDebounced(S, uri, hasCap, global)

\* validateDocumentNow(document), to the start of the pass
validateDocumentNow(S, uri, source, hasCap, global) ==
    IF ~IsJson(uri) THEN S
    ELSE AwaitSettings(S, [kind |-> "now", uri |-> uri, call |-> 0,
                           epoch |-> S.closes[uri], source |-> source,
                           promise |-> 0],
                       hasCap, global)

\* a call for uri would send a workspace/configuration request
NeedsRequest(S, uri, hasCap) == hasCap /\ S.documentSettings[uri] = 0

\* the bounds of one behaviour leave room for a validateDocumentDebounced call
CanDebounce(S, uri, hasCap) ==
    /\ S.callCount < MaxDebounceCalls
    /\ NeedsRequest(S, uri, hasCap) => Len(S.promises) < MaxRequests

\* the bounds of one behaviour leave room for a validateDocumentNow call
CanValidateNow(S, uri, hasCap) ==
    IsJson(uri) =>
        /\ NeedsRequest(S, uri, hasCap) => Len(S.promises) < MaxRequests
        /\ Len(S.waiting) < MaxWaiting

InitServer ==
    /\ hasConfigurationCapability \in BOOLEAN
    /\ globalSettings = defaultSettings
    /\ openDocs = {}
    /\ srv = InitServerState

\* textDocument/didOpen: the manager adds the document and fires
\* onDidChangeContent
DidOpen(uri) ==
    /\ uri \notin openDocs
    /\ CanDebounce(srv, uri, hasConfigurationCapability)
    /\ openDocs' = openDocs \cup {uri}
    /\ srv' = validateDocumentDebounced(srv, uri, hasConfigurationCapability,
                                        globalSettings)
    /\ UNCHANGED <<hasConfigurationCapability, globalSettings>>

\* documents.onDidChangeContent
DidChangeContent(uri) ==
    /\ uri \in openDocs
    /\ CanDebounce(srv, uri, hasConfigurationCapability)
    /\ srv' = validateDocumentDebounced(srv, uri, hasConfigurationCapability,
                                        globalSettings)
    /\ UNCHANGED <<hasConfigurationCapability, globalSettings, openDocs>>

\* documents.onDidSave
DidSave(uri) ==
    /\ uri \in openDocs
    /\ CanValidateNow(srv, uri, hasConfigurationCapability)
    /\ srv' = validateDocumentNow(srv, uri, "save", hasConfigurationCapability,
                                  globalSettings)
    /\ UNCHANGED <<hasConfigurationCapability, globalSettings, openDocs>>

\* documents.onDidClose
DidClose(uri) ==
    /\ uri \in openDocs
    /\ openDocs' = openDocs \ {uri}
    /\ LET timer == srv.validationDebounceTimers[uri]
           S1 == [srv EXCEPT !.documentSettings[uri] = 0,
                             !.closes[uri] = @ + 1]
       IN  srv' = IF timer # 0
                  THEN [clearTimeout(S1, timer)
                            EXCEPT !.validationDebounceTimers[uri] = 0]
                  ELSE S1
    /\ UNCHANGED <<hasConfigurationCapability, globalSettings>>

\* documents.all().forEach(validateDocumentDebounced)
RECURSIVE ForEachDebounced(_, _, _, _)
ForEachDebounced(S, docs, hasCap, global) ==
    IF docs = {} THEN S
    ELSE LET uri == CHOOSE u \in docs : TRUE
         IN  ForEachDebounced(validateDocumentDebounced(S, uri, hasCap, global),
                              docs \ {uri}, hasCap, global)

\* connection.onDidChangeConfiguration; hed is change.settings.hed
DidChangeConfiguration(hed) ==
    /\ srv.callCount + Cardinality(openDocs) <= MaxDebounceCalls
    /\ hasConfigurationCapability =>
           Len(srv.promises) + Cardinality(openDocs) <= MaxRequests
    /\ globalSettings' = IF hasConfigurationCapability THEN globalSettings ELSE hed
    /\ currentVersion' = IF hed.schemaVersion # <<>>
                         THEN setCurrentVersion(hed.schemaVersion)
                         ELSE currentVersion
    /\ LET S1 == IF hasConfigurationCapability
                 THEN [srv EXCEPT !.documentSettings = [u \in Uris |-> 0]]
                 ELSE srv
       IN  srv' = ForEachDebounced(S1, openDocs, hasConfigurationCapability,
                                   globalSettings')
    /\ UNCHANGED <<hasConfigurationCapability, openDocs,
                   schemaCache, schemaCalls, builds>>

\* the continuations registered on promise p, resumed in registration order
RECURSIVE ResumeAll(_, _, _, _)
ResumeAll(S, ws, p, pr) ==
    IF ws = <<>> THEN S
    ELSE IF ws[1].promise = p
         THEN ResumeAll(Resume(S, ws[1], pr), Tail(ws), p, pr)
         ELSE ResumeAll(S, Tail(ws), p, pr)

\* the client answers (or fails) the configuration request behind promise p
SettingsSettle(p, state, value) ==
    /\ srv.promises[p].state = "pending"
    /\ LET pr == [state |-> state, value |-> value]
           S1 == [srv EXCEPT !.promises[p] = pr,
                             !.waiting = SelectSeq(@, LAMBDA w : w.promise # p)]
       IN  srv' = ResumeAll(S1, srv.waiting, p, pr)
    /\ UNCHANGED <<hasConfigurationCapability, globalSettings, openDocs>>

\* the callback of a debounce timer runs
TimerFires(t) ==
    /\ t \in srv.liveTimers
    /\ CanValidateNow(srv, t.uri, hasConfigurationCapability)
    /\ LET S1 == [srv EXCEPT
                    !.liveTimers = @ \ {t},
                    !.validationDebounceTimers[t.uri] = 0,
                    !.fired = @ \cup {[uri |-> t.uri, call |-> t.call,
                                       latest |-> srv.lastCall[t.uri],
                                       epoch |-> t.epoch,
                                       closes |-> srv.closes[t.uri]]}]
       IN  srv' = validateDocumentNow(S1, t.uri, "timer",
                                      hasConfigurationCapability, globalSettings)
    /\ UNCHANGED <<hasConfigurationCapability, globalSettings, openDocs>>


(***************************************************************************)
(* embeddings.ts: keyword index, embedding store, scoring                  *)
(*                                                                         *)
(* Vector components are in tenths, cosine similarities in hundredths, and *)
(* the scores of a result in units of 10^-7, so that the arithmetic of the *)
(* combination is exact on the vectors of the model.                       *)
(***************************************************************************)
Marmoset == <<"m", "a", "r", "m", "o", "s", "e", "t">>
MarmosetPadded == <<" ", "M", "a", "r", "m", "o", "s", "e", "t", " ">>
Click == <<"c", "l", "i", "c", "k">>
Bird == <<"b", "i", "r", "d">>

AnimalTag == <<"A", "n", "i", "m", "a", "l">>
AnimalAgentTag == <<"A", "n", "i", "m", "a", "l", "-", "a", "g", "e", "n", "t">>
SoundTag == <<"S", "o", "u", "n", "d">>
BeepTag == <<"B", "e", "e", "p">>
PressTag == <<"P", "r", "e", "s", "s">>
PushButtonTag == <<"P", "u", "s", "h", "-", "b", "u", "t", "t", "o", "n">>
ScorePrefix == <<"s", "c", ":">>

\* two of the entries of KEYWORD_INDEX
KEYWORD_INDEX ==
    [k \in {Marmoset, Click} |->
        IF k = Marmoset THEN <<AnimalTag, AnimalAgentTag>>
        ELSE <<SoundTag, BeepTag, PressTag, PushButtonTag>>]

\* a TagEmbedding and a KeywordEmbedding
TagEmbedding(tag, prefix, vector) ==
    [tag |-> tag, prefix |-> prefix, vector |-> vector]
KeywordEmbedding(keyword, targets, vector) ==
    [keyword |-> keyword, targets |-> targets, vector |-> vector]

\* The contents of data/tag-embeddings.json the model considers.  Entry 1 is
\* a store with every tag the two keywords name except Beep and Push-button,
\* entry 2 one without Animal, entry 3 one of a library schema with prefixed
\* tags and no keyword embeddings.
Databases ==
    << [dimensions |-> 2,
        tags |-> << TagEmbedding(AnimalTag, <<>>, <<10, 0>>),
                    TagEmbedding(AnimalAgentTag, <<>>, <<8, 6>>),
                    TagEmbedding(SoundTag, <<>>, <<0, 10>>),
                    TagEmbedding(PressTag, <<>>, <<6, 8>>) >>,
        keywords |-> << KeywordEmbedding("dog", <<AnimalTag, AnimalAgentTag>>, <<10, 0>>),
                        KeywordEmbedding("bark", <<SoundTag, AnimalTag>>, <<6, 8>>) >>],
       [dimensions |-> 2,
        tags |-> << TagEmbedding(SoundTag, <<>>, <<0, 10>>),
                    TagEmbedding(AnimalAgentTag, <<>>, <<8, 6>>) >>,
        keywords |-> << KeywordEmbedding("dog", <<AnimalTag, AnimalAgentTag>>, <<8, 6>>) >>],
       [dimensions |-> 2,
        tags |-> << TagEmbedding(AnimalTag, ScorePrefix, <<10, 0>>),
                    TagEmbedding(SoundTag, ScorePrefix, <<6, 8>>) >>,
        keywords |-> << >>] >>

\* 0: no embeddings file on disk
Stores == 0..Len(Databases)

\* a Map that keeps insertion order: a sequence of [k, v]
OIndex(map, k) ==
    IF \E i \in 1..Len(map) : map[i].k = k
    THEN CHOOSE i \in 1..Len(map) : map[i].k = k
    ELSE 0
OHas(map, k) == OIndex(map, k) # 0
OGet(map, k) == map[OIndex(map, k)].v
OSet(map, k, v) ==
    IF OHas(map, k) THEN [map EXCEPT ![OIndex(map, k)].v = v]
    ELSE Append(map, [k |-> k, v |-> v])

\* Array.prototype.slice(0, n)
slice(seq, n) == SubSeq(seq, 1, IF n < Len(seq) THEN n ELSE Len(seq))

\* cosineSimilarity(a, b): the dot product, 0 on a length mismatch
RECURSIVE dotProduct(_, _, _)
dotProduct(a, b, i) ==
    IF i > Len(a) THEN 0 ELSE a[i] * b[i] + dotProduct(a, b, i + 1)
cosineSimilarity(a, b) == IF Len(a) # Len(b) THEN 0 ELSE dotProduct(a, b, 1)

\* Array.prototype.sort((a, b) => b[field] - a[field]): stable, descending
RECURSIVE insertDescending(_, _, _)
insertDescending(sorted, x, field) ==
    IF sorted = <<>> THEN <<x>>
    ELSE IF sorted[1][field] >= x[field]
         THEN <<sorted[1]>> \o insertDescending(Tail(sorted), x, field)
         ELSE <<x>> \o sorted
RECURSIVE sortDescending(_, _)
sortDescending(seq, field) ==
    IF seq = <<>> THEN <<>>
    ELSE insertDescending(sortDescending(SubSeq(seq, 1, Len(seq) - 1), field),
                          seq[Len(seq)], field)

KEYWORD_THRESHOLD == 60        \* 0.6
TOP_KEYWORDS == 10
TAG_THRESHOLD == 50            \* 0.5
KEYWORD_MATCH_SIMILARITY == 9500000   \* 0.95
SIMILARITY_CAP == 9400000             \* 0.94

\* (1 + Math.log(votes + 1) * 0.2), in units of 10^-4
VoteFactor(votes) ==
    CASE votes = 1 -> 11386
      [] votes = 2 -> 12197
      [] votes = 3 -> 12773
      [] OTHER     -> 13219

\* the similarity of a result, without the cap
capSimilarity_none(combinedScore) == combinedScore

\* Math.min(data.combinedScore, 0.94)
capSimilarity(combinedScore) ==
    IF combinedScore < SIMILARITY_CAP THEN combinedScore ELSE SIMILARITY_CAP

\* loadEmbeddings: tagEmbeddings after `for (const entry of db.tags)`
RECURSIVE loadTags(_, _)
loadTags(map, tags) ==
    IF tags = <<>> THEN map
    ELSE loadTags(OSet(map, toLowerCase(tags[1].prefix \o tags[1].tag), tags[1]),
                  Tail(tags))

\* loadEmbeddings()
loadEmbeddings(E) ==
    IF E.embeddingsLoaded \/ E.store = 0 THEN E
    ELSE LET db == Databases[E.store]
         IN  [E EXCEPT !.tagEmbeddings = loadTags(@, db.tags),
                       !.keywordEmbeddings =
                           IF Len(db.keywords) > 0 THEN db.keywords ELSE @,
                       !.dimensions = db.dimensions,
                       !.embeddingsLoaded = TRUE]

\* findByKeyword: the results of `for (const tagName of matchingTags)`
RECURSIVE keywordResults(_, _)
keywordResults(E, matchingTags) ==
    IF matchingTags = <<>> THEN <<>>
    ELSE LET key == toLowerCase(matchingTags[1])
             rest == keywordResults(E, Tail(matchingTags))
         IN  IF OHas(E.tagEmbeddings, key)
             THEN <<[tag |-> OGet(E.tagEmbeddings, key).tag,
                     prefix |-> OGet(E.tagEmbeddings, key).prefix,
                     similarity |-> KEYWORD_MATCH_SIMILARITY]>> \o rest
             ELSE rest

\* findByKeyword with a query that is lowercased but not trimmed
findByKeyword_noTrim(E, query) ==
    LET normalizedQuery == toLowerCase(query)
    IN  IF normalizedQuery \notin DOMAIN KEYWORD_INDEX THEN <<>>
        ELSE keywordResults(E, KEYWORD_INDEX[normalizedQuery])

\* findByKeyword(query)
findByKeyword(E, query) ==
    LET normalizedQuery == trim(toLowerCase(query))
    IN  IF normalizedQuery \notin DOMAIN KEYWORD_INDEX THEN <<>>
        ELSE keywordResults(E, KEYWORD_INDEX[normalizedQuery])

Max(a, b) == IF a >= b THEN a ELSE b

\* findSimilar step 1: the keywords similar enough to the query
RECURSIVE keywordSimilarities(_, _)
keywordSimilarities(keywords, queryEmbedding) ==
    IF keywords = <<>> THEN <<>>
    ELSE LET similarity == cosineSimilarity(queryEmbedding, keywords[1].vector)
             rest == keywordSimilarities(Tail(keywords), queryEmbedding)
         IN  IF similarity >= KEYWORD_THRESHOLD
             THEN <<[keyword |-> keywords[1], similarity |-> similarity]>> \o rest
             ELSE rest

\* one keyword votes for its target tags
RECURSIVE voteTargets(_, _, _)
voteTargets(votes, targets, similarity) ==
    IF targets = <<>> THEN votes
    ELSE LET targetTag == targets[1]
             vote == IF OHas(votes, targetTag)
                     THEN [votes |-> OGet(votes, targetTag).votes + 1,
                           maxSimilarity |-> Max(OGet(votes, targetTag).maxSimilarity,
                                                 similarity)]
                     ELSE [votes |-> 1, maxSimilarity |-> similarity]
         IN  voteTargets(OSet(votes, targetTag, vote), Tail(targets), similarity)

RECURSIVE collectVotes(_, _)
collectVotes(votes, topKeywords) ==
    IF topKeywords = <<>> THEN votes
    ELSE collectVotes(voteTargets(votes, topKeywords[1].keyword.targets,
                                  topKeywords[1].similarity),
                      Tail(topKeywords))

tagVotes(E, queryEmbedding) ==
    IF Len(E.keywordEmbeddings) > 0
    THEN collectVotes(<<>>,
             slice(sortDescending(keywordSimilarities(E.keywordEmbeddings,
                                                      queryEmbedding),
                                  "similarity"),
                   TOP_KEYWORDS))
    ELSE <<>>

\* findSimilar step 2: the tags directly similar to the query, by entry.tag
RECURSIVE directMatchesFrom(_, _, _)
directMatchesFrom(matches, entries, queryEmbedding) ==
    IF entries = <<>> THEN matches
    ELSE LET entry == entries[1].v
             similarity == cosineSimilarity(queryEmbedding, entry.vector)
         IN  directMatchesFrom(
                 IF similarity >= TAG_THRESHOLD
                 THEN OSet(matches, entry.tag,
                           [entry |-> entry, similarity |-> similarity])
                 ELSE matches,
                 Tail(entries), queryEmbedding)

directMatches(E, queryEmbedding) ==
    directMatchesFrom(<<>>, E.tagEmbeddings, queryEmbedding)

\* the tags with keyword votes, scored by the weighted direct similarity
\* alone: the keyword score and its boost are left out
RECURSIVE addVoted_directWeightOnly(_, _, _, _)
addVoted_directWeightOnly(combinedScores, votes, E, direct) ==
    IF votes = <<>> THEN combinedScores
    ELSE LET tagName == votes[1].k
             key == toLowerCase(tagName)
             directSim == IF OHas(direct, tagName)
                          THEN OGet(direct, tagName).similarity ELSE 0
         IN  IF OHas(E.tagEmbeddings, key)
             THEN addVoted_directWeightOnly(
                      OSet(combinedScores, tagName,
                           [entry |-> OGet(E.tagEmbeddings, key),
                            keywordVotes |-> votes[1].v.votes,
                            directSimilarity |-> directSim,
                            combinedScore |-> directSim * 30000]),
                      Tail(votes), E, direct)
             ELSE addVoted_directWeightOnly(combinedScores, Tail(votes), E, direct)

\* findSimilar step 3: the tags with keyword votes
RECURSIVE addVoted(_, _, _, _)
addVoted(combinedScores, votes, E, direct) ==
    IF votes = <<>> THEN combinedScores
    ELSE LET tagName == votes[1].k
             key == toLowerCase(tagName)
         IN  IF OHas(E.tagEmbeddings, key)
             THEN LET directSim == IF OHas(direct, tagName)
                                   THEN OGet(direct, tagName).similarity ELSE 0
                      keywordScore == votes[1].v.maxSimilarity
                                          * VoteFactor(votes[1].v.votes)
                      boostMultiplier == IF directSim > 0 THEN 15 ELSE 10
                      combinedScore == keywordScore * boostMultiplier
                                           + directSim * 30000
                  IN  addVoted(OSet(combinedScores, tagName,
                                    [entry |-> OGet(E.tagEmbeddings, key),
                                     keywordVotes |-> votes[1].v.votes,
                                     directSimilarity |-> directSim,
                                     combinedScore |-> combinedScore]),
                               Tail(votes), E, direct)
             ELSE addVoted(combinedScores, Tail(votes), E, direct)

\* findSimilar step 3: the direct matches that were not voted for
RECURSIVE addDirect(_, _)
addDirect(combinedScores, direct) ==
    IF direct = <<>> THEN combinedScores
    ELSE addDirect(
             IF OHas(combinedScores, direct[1].k) THEN combinedScores
             ELSE OSet(combinedScores, direct[1].k,
                       [entry |-> direct[1].v.entry,
                        keywordVotes |-> 0,
                        directSimilarity |-> direct[1].v.similarity,
                        combinedScore |-> direct[1].v.similarity * 100000]),
             Tail(direct))

combinedScores(E, queryEmbedding) ==
    LET direct == directMatches(E, queryEmbedding)
    IN  addDirect(addVoted(<<>>, tagVotes(E, queryEmbedding), E, direct), direct)

\* findSimilar from the query embedding to its result
dualEmbeddingSearch(E, queryEmbedding, topK) ==
    LET combined == combinedScores(E, queryEmbedding)
        sortedResults ==
            slice(sortDescending([i \in 1..Len(combined) |-> combined[i].v],
                                 "combinedScore"),
                  topK)
    IN  [i \in 1..Len(sortedResults) |->
            [tag |-> sortedResults[i].entry.tag,
             prefix |-> sortedResults[i].entry.prefix,
             similarity |-> capSimilarity(sortedResults[i].combinedScore)]]

(***************************************************************************)
(* embeddings.ts: EmbeddingsManager                                        *)
(***************************************************************************)
MaxEmbCalls == 2   \* calls of the manager's methods in one behaviour

\* what the embedding provider (the model's extractor) may return
ProviderVectors == {<<10, 0>>, <<6, 8, 0>>, <<0, 10>>}

\* (query, topK) of the findSimilar calls
FindSimilarInputs ==
    {<<Marmoset, 5>>, <<MarmosetPadded, 5>>, <<Click, 1>>, <<Bird, 5>>, <<Bird, 1>>}

\* Field emb is a record:
\*   store              which embeddings file is on disk (0: none)
\*   enabled            config.enabled
\*   modelLoaded, embeddingsLoaded, dimensions, tagEmbeddings,
\*   keywordEmbeddings  the manager's fields
\*   loading            the load the field `loading` holds (0: null)
\*   loads              the _loadModel invocations: "running", "ok", "failed"
\*   calls              the calls made so far, in call order
InitEmbeddingsManager(store) ==
    [store |-> store,
     enabled |-> TRUE,
     modelLoaded |-> FALSE,
     embeddingsLoaded |-> FALSE,
     dimensions |-> 1024,
     tagEmbeddings |-> <<>>,
     keywordEmbeddings |-> <<>>,
     loading |-> 0,
     loads |-> <<>>,
     calls |-> <<>>]

\* a call just made: not suspended anywhere yet
NewCall(kind, query, topK) ==
    [kind |-> kind, query |-> query, topK |-> topK, pc |-> "running",
     load |-> 0, starter |-> FALSE, loaded |-> "none", path |-> "none",
     providerCalls |-> 0, embedding |-> <<>>, matches |-> <<>>]

\* embed after its extractor call has returned `embedding` (<<>>: it threw),
\* and findSimilar after `await this.embed(...)`
AfterEmbed(E, c, embedding) ==
    IF E.calls[c].kind = "embed" \/ embedding = <<>>
    THEN [E EXCEPT !.calls[c].pc = "returned",
                   !.calls[c].embedding = embedding]
    ELSE [E EXCEPT !.calls[c].pc = "returned",
                   !.calls[c].embedding = embedding,
                   !.calls[c].matches =
                       dualEmbeddingSearch(E, embedding, E.calls[c].topK)]

\* embed: `await extractor(text, ...)` is issued
CallExtractor(E, c) ==
    [E EXCEPT !.calls[c].pc = "extracting",
              !.calls[c].providerCalls = @ + 1]

\* the caller c of initializeModel after the call's promise has settled
AfterInitializeModel(E, c, loaded) ==
    LET E1 == [E EXCEPT !.calls[c].loaded = IF loaded THEN "true" ELSE "false"]
    IN  IF E.calls[c].kind = "initializeModel"
        THEN [E1 EXCEPT !.calls[c].pc = "returned"]
        ELSE IF ~loaded THEN AfterEmbed(E1, c, <<>>)
        ELSE CallExtractor(E1, c)

\* initializeModel without the check of this.loading: every call that finds
\* the model not loaded starts _loadModel
initializeModel_noSharing(E, c) ==
    IF ~E.enabled THEN AfterInitializeModel(E, c, FALSE)
    ELSE IF E.modelLoaded THEN AfterInitializeModel(E, c, TRUE)
    ELSE [E EXCEPT !.loads = Append(@, "running"),
                   !.loading = Len(E.loads) + 1,
                   !.calls[c].pc = "awaitingModel",
                   !.calls[c].load = Len(E.loads) + 1,
                   !.calls[c].starter = TRUE]

\* initializeModel(), called by c, up to its await
initializeModel(E, c) ==
    IF ~E.enabled THEN AfterInitializeModel(E, c, FALSE)
    ELSE IF E.modelLoaded THEN AfterInitializeModel(E, c, TRUE)
    ELSE IF E.loading # 0
         THEN [E EXCEPT !.calls[c].pc = "awaitingModel",
                        !.calls[c].load = E.loading]
    ELSE [E EXCEPT !.loads = Append(@, "running"),
                   !.loading = Len(E.loads) + 1,
                   !.calls[c].pc = "awaitingModel",
                   !.calls[c].load = Len(E.loads) + 1,
                   !.calls[c].starter = TRUE]

\* embed(text), called by c, up to its first await
embed(E, c) ==
    IF ~E.modelLoaded THEN initializeModel(E, c) ELSE CallExtractor(E, c)

\* findSimilar that gives up before the keyword lookup when the embedding
\* tier is disabled
findSimilar_needsModel(E, c) ==
    LET E1 == loadEmbeddings(E)
        exactKeywordMatches == findByKeyword(E1, E1.calls[c].query)
    IN  IF Len(E1.tagEmbeddings) = 0 \/ ~E1.enabled
        THEN [E1 EXCEPT !.calls[c].pc = "returned"]
        ELSE IF Len(exactKeywordMatches) > 0
        THEN [E1 EXCEPT !.calls[c].pc = "returned",
                        !.calls[c].path = "keyword",
                        !.calls[c].matches =
                            slice(exactKeywordMatches, E1.calls[c].topK)]
        ELSE embed([E1 EXCEPT !.calls[c].path = "embedding"], c)

\* findSimilar(query, topK), called by c, up to `await this.embed(...)`
findSimilar(E, c) ==
    LET E1 == loadEmbeddings(E)
        exactKeywordMatches == findByKeyword(E1, E1.calls[c].query)
    IN  IF Len(E1.tagEmbeddings) = 0
        THEN [E1 EXCEPT !.calls[c].pc = "returned"]
        ELSE IF Len(exactKeywordMatches) > 0
        THEN [E1 EXCEPT !.calls[c].pc = "returned",
                        !.calls[c].path = "keyword",
                        !.calls[c].matches =
                            slice(exactKeywordMatches, E1.calls[c].topK)]
        ELSE embed([E1 EXCEPT !.calls[c].path = "embedding"], c)

InitEmb == \E store \in Stores : emb = InitEmbeddingsManager(store)

InitEmbIdle == emb = InitEmbeddingsManager(0)

\* a caller invokes initializeModel()
InitializeModel ==
    /\ Len(emb.calls) < MaxEmbCalls
    /\ LET c == Len(emb.calls) + 1
           E == [emb EXCEPT !.calls = Append(@, NewCall("initializeModel", <<>>, 0))]
       IN  emb' = initializeModel(E, c)

\* a caller invokes embed(text)
Embed ==
    /\ Len(emb.calls) < MaxEmbCalls
    /\ LET c == Len(emb.calls) + 1
           E == [emb EXCEPT !.calls = Append(@, NewCall("embed", Bird, 0))]
       IN  emb' = embed(E, c)

\* a caller invokes findSimilar(query, topK)
FindSimilar ==
    /\ Len(emb.calls) < MaxEmbCalls
    /\ \E input \in FindSimilarInputs :
         LET c == Len(emb.calls) + 1
             E == [emb EXCEPT !.calls = Append(@, NewCall("findSimilar", input[1], input[2]))]
         IN  emb' = findSimilar(E, c)

\* the callers suspended on load k resume, in the order they suspended; the
\* one that started the load clears this.loading
RECURSIVE ResumeLoadWaiters(_, _, _, _)
ResumeLoadWaiters(E, c, k, loaded) ==
    IF c > Len(E.calls) THEN E
    ELSE IF E.calls[c].pc = "awaitingModel" /\ E.calls[c].load = k
         THEN LET E1 == IF E.calls[c].starter THEN [E EXCEPT !.loading = 0] ELSE E
              IN  ResumeLoadWaiters(AfterInitializeModel(E1, c, loaded),
                                    c + 1, k, loaded)
         ELSE ResumeLoadWaiters(E, c + 1, k, loaded)

\* _loadModel k finishes: the pipeline was created, or the import or the
\* pipeline threw
LoadModelReturns ==
    \E k \in 1..Len(emb.loads) : \E loaded \in BOOLEAN :
        /\ emb.loads[k] = "running"
        /\ LET E == [emb EXCEPT !.loads[k] = IF loaded THEN "ok" ELSE "failed",
                                !.modelLoaded = IF loaded THEN TRUE ELSE @,
                                !.enabled = IF loaded THEN @ ELSE FALSE]
           IN  emb' = ResumeLoadWaiters(E, 1, k, loaded)

\* the extractor call of c returns a vector, or throws
ExtractorReturns ==
    \E c \in 1..Len(emb.calls) : \E output \in ProviderVectors \cup {<<>>} :
        /\ emb.calls[c].pc = "extracting"
        /\ emb' = AfterEmbed(emb, c, slice(output, emb.dimensions))

(***************************************************************************)
(* schemaManager: detectSchemaVersion, getSchemaForDocument                *)
(***************************************************************************)
\* the JSON documents whose validation the model follows
SidecarUris == {"file:///ds/a.json", "file:///ds/sub/c.json"}

\* normalizeVersion of an array of strings
normalizeVersionArray(hedVersion) ==
    join(nonEmpty([i \in 1..Len(hedVersion) |-> trim(hedVersion[i])]), ",")

\* A dataset_description.json as one directory holds it: absent, not
\* parseable, or an object whose HEDVersion is missing, a string or an array.
NoDescription == [file |-> "absent", kind |-> "none", string |-> <<>>, array |-> <<>>]
BadDescription == [file |-> "invalid", kind |-> "none", string |-> <<>>, array |-> <<>>]
Description(kind, string, array) ==
    [file |-> "json", kind |-> kind, string |-> string, array |-> array]

\* parseHedVersion(datasetDescription): Null when there is no version
parseHedVersion(description) ==
    CASE description.kind = "string" -> normalizeVersion(description.string)
      [] description.kind = "array"  -> normalizeVersionArray(description.array)
      [] OTHER                       -> Null

maxDepth == 10

\* detectSchemaVersion: the loop over the directories from the document's
\* own upward (dirs, nearest first), at directory i
RECURSIVE searchUp(_, _)
searchUp(dirs, i) ==
    IF i > Len(dirs) \/ i > maxDepth THEN Null
    ELSE IF dirs[i].file = "json" /\ parseHedVersion(dirs[i]) # Null
         THEN parseHedVersion(dirs[i])
         ELSE searchUp(dirs, i + 1)

\* the workspace version cache after a detection that found nothing, wrongly
\* remembering the miss (Null) for the document
cacheDetected_always(cache, documentUri, version) ==
    MapSet(cache, documentUri, version)

\* detectSchemaVersion: the workspace version cache after the search returned
\* `version`: only a version that was found is stored
cacheDetected(cache, documentUri, version) ==
    IF version # Null THEN MapSet(cache, documentUri, version) ELSE cache

\* detectSchemaVersion(documentUri) on cache W and directory chain dirs:
\* the version returned, the cache afterwards, and whether the tree was walked
detectSchemaVersion(W, documentUri, dirs) ==
    IF documentUri \in DOMAIN W
    THEN [version |-> W[documentUri], cache |-> W, walked |-> FALSE]
    ELSE LET version == searchUp(dirs, 1)
         IN  [version |-> version,
              cache |-> cacheDetected(W, documentUri, version),
              walked |-> TRUE]

\* getSchemaForDocument: the version handed to getSchema
versionForDocument(detected, current) ==
    IF detected = Null THEN current
    ELSE IF ~includes(detected, ":")
         THEN join(<<detected>> \o LIBRARY_SCHEMAS, ",")
         ELSE detected

\* the directory chains of the model, nearest directory first
V830Score ==
    <<"8", ".", "3", ".", "0", ",", "s", "c", ":", "s", "c", "o", "r", "e",
      "_", "2", ".", "1", ".", "0">>
DirectoryChains ==
    { <<NoDescription>>,
      <<Description("none", <<>>, <<>>), Description("string", <<" ">> \o V830, <<>>)>>,
      <<BadDescription,
        Description("array", <<>>, <<V830, <<"s", "c", ":", "s", "c", "o", "r",
                                       "e", "_", "2", ".", "1", ".", "0">>>>)>> }

(***************************************************************************)
(* validation.ts: validateHedString, validateDocument                      *)
(***************************************************************************)
\* document.positionAt(offset) on a document of one line
positionAt(offset) == [line |-> 0, character |-> offset]

\* a HedRegion: its content, the offset where the content starts, and its
\* range, which includes the quotes
HedRegion(content, contentOffset) ==
    [content |-> content,
     contentOffset |-> contentOffset,
     range |-> [start |-> positionAt(contentOffset - 1),
                end |-> positionAt(contentOffset + Len(content) + 1)]]

\* boundsToRange(region, bounds, positionAt)
boundsToRange(region, bounds) ==
    [start |-> positionAt(region.contentOffset + bounds[1]),
     end |-> positionAt(region.contentOffset + bounds[2])]

\* An Issue of the validator: its code, level and message, and the parameters
\* convertIssue reads: bounds (<<>> when absent), index (NoIndex when absent)
\* and tag, a string (<<>> when absent).
NoIndex == -1
Issue(hedCode, level, bounds, index, tag) ==
    [hedCode |-> hedCode, level |-> level, message |-> hedCode,
     parameters |-> [bounds |-> bounds, index |-> index, tag |-> tag]]

\* convertIssue(issue, hedString), for an issue with a specific hedCode
convertIssue(issue, hedString) ==
    LET params == issue.parameters
        fromIndex == IF params.index # NoIndex
                     THEN <<params.index, params.index + 1>> ELSE <<>>
        fromTag == IF params.tag # <<>>
                   THEN findTagInString(hedString, params.tag) ELSE <<>>
        bounds == IF params.bounds # <<>> THEN params.bounds
                  ELSE IF fromIndex # <<>> THEN fromIndex
                  ELSE fromTag
    IN  [hedCode |-> issue.hedCode,
         level |-> IF issue.level = "warning" THEN "warning" ELSE "error",
         message |-> issue.message,
         bounds |-> bounds]

\* HED strings of the sidecars: "A, B", "B", "{c}" and "(("
HedAB == <<"A", ",", " ", "B">>
HedB == <<"B">>
HedPlaceholder == <<"{", "c", "}">>
HedCrash == <<"(", "(">>

\* What the external validator's parseHedString does with a string: it
\* throws, or returns its issues (syntax, then semantic).  It is a function
\* of the string: here it throws on "((", reports four issues on "A, B"
\* (with bounds, with a tag that is not in the string, with an index, with a
\* tag that is in the string) and none on any other string.
Throws == [throws |-> TRUE, issues |-> <<>>]
Returns(issues) == [throws |-> FALSE, issues |-> issues]
parseHedString(cleanedHed) ==
    CASE cleanedHed = HedCrash -> Throws
      [] cleanedHed = HedAB ->
            Returns(<<Issue("TAG_INVALID", "error", <<0, 1>>, NoIndex, <<>>),
                      Issue("TAG_EXTENDED", "warning", <<>>, NoIndex, <<"Z">>),
                      Issue("PARENTHESES_MISMATCH", "error", <<>>, 2, <<>>),
                      Issue("TAG_INVALID", "error", <<>>, NoIndex, <<"B">>)>>)
      [] OTHER -> Returns(<<>>)

\* the issue validateHedString returns when parseHedString throws
InternalErrorIssue ==
    [hedCode |-> "INTERNAL_ERROR", level |-> "error",
     message |-> "Validation error", bounds |-> <<>>]

\* the try block of validateHedString without its catch: the exception of
\* parseHedString escapes and the string yields no issue
tryParseHedString_noCatch(parsed, hedString) ==
    IF parsed.throws THEN <<>>
    ELSE [i \in 1..Len(parsed.issues) |->
             convertIssue(parsed.issues[i], hedString)]

\* validateHedString: the try block around parseHedString and its catch,
\* on what parseHedString did
tryParseHedString(parsed, hedString) ==
    IF parsed.throws THEN <<InternalErrorIssue>>
    ELSE [i \in 1..Len(parsed.issues) |->
             convertIssue(parsed.issues[i], hedString)]

\* validateHedString from the placeholders having been removed
validateCleaned(cleanedHed, hedString) ==
    IF trim(cleanedHed) = <<>> THEN <<>>
    ELSE tryParseHedString(parseHedString(cleanedHed), hedString)

\* validateHedString(hedString, schemas)
validateHedString(hedString) ==
    IF trim(hedString) = <<>> THEN <<>>
    ELSE validateCleaned(removePlaceholders(hedString), hedString)

\* issueToDiagnostic that gives an issue without bounds an empty range at the
\* start of the document
issueToDiagnostic_noFallback(issue, region) ==
    [severity |-> IF issue.level = "error" THEN "Error" ELSE "Warning",
     range |-> IF issue.bounds # <<>> THEN boundsToRange(region, issue.bounds)
               ELSE [start |-> positionAt(0), end |-> positionAt(0)],
     message |-> issue.message,
     code |-> issue.hedCode]

\* issueToDiagnostic(issue, region, document)
issueToDiagnostic(issue, region) ==
    [severity |-> IF issue.level = "error" THEN "Error" ELSE "Warning",
     range |-> IF issue.bounds # <<>> THEN boundsToRange(region, issue.bounds)
               ELSE region.range,
     message |-> issue.message,
     code |-> issue.hedCode]

\* validateDocument: the diagnostic pushed when the schema fails to load
SchemaLoadDiagnostic ==
    [severity |-> "Error",
     range |-> [start |-> positionAt(0), end |-> positionAt(0)],
     message |-> "Failed to load HED schema",
     code |-> "none"]

\* validateDocument: `for (const region of regions)` from region r on
RECURSIVE validateRegions(_, _)
validateRegions(regions, r) ==
    IF r > Len(regions) THEN <<>>
    ELSE LET issues == validateHedString(regions[r].content)
         IN  [i \in 1..Len(issues) |-> issueToDiagnostic(issues[i], regions[r])]
                 \o validateRegions(regions, r + 1)

(***************************************************************************)
(* server.ts and validation.ts: one validation pass                        *)
(***************************************************************************)
MaxPasses == 2   \* validation passes in one behaviour

\* the regions parseJsonForHedStrings finds in the texts a sidecar may have
SidecarTexts ==
    { <<>>,
      <<HedRegion(HedCrash, 9), HedRegion(HedPlaceholder, 22),
        HedRegion(HedAB, 34)>> }

\* the settings a pass is started with
PassSettings ==
    {[schemaVersion |-> <<>>, maxNumberOfProblems |-> 100],
     [schemaVersion |-> V830, maxNumberOfProblems |-> 1]}

\* the documents and settings of the passes: the second sidecar is validated
\* with the default settings only
PassInputs ==
    {in \in SidecarUris \X PassSettings :
        in[1] = "file:///ds/a.json" \/ in[2].schemaVersion = <<>>}

\* Field val is a record:
\*   docs       uri -> the regions of the document's current text
\*   passes     the validation passes started so far, in order
\*   published  uri -> the pass that last sent diagnostics for it (0: none)
\*              and the diagnostics sent
InitValidation(docs) ==
    [docs |-> docs,
     passes |-> <<>>,
     published |-> [u \in SidecarUris |-> [pass |-> 0, diagnostics |-> <<>>]]]

\* a pass of validateDocumentNow that has parsed the document
NewPass(uri, settings, regions) ==
    [uri |-> uri, settings |-> settings, regions |-> regions,
     pc |-> "loadingSchema", call |-> 0, walked |-> FALSE, detected |-> Null,
     kind |-> "none", diagnostics |-> <<>>]

\* validateDocumentNow that sends the diagnostics without limiting them
Publish_unlimited(V, p, kind, diagnostics) ==
    [V EXCEPT !.passes[p].pc = "done",
              !.passes[p].kind = kind,
              !.passes[p].diagnostics = diagnostics,
              !.published[V.passes[p].uri] =
                  [pass |-> p, diagnostics |-> diagnostics]]

\* validateDocumentNow from the result of validateDocument on: the
\* diagnostics are limited and sent
Publish(V, p, kind, diagnostics) ==
    [V EXCEPT !.passes[p].pc = "done",
              !.passes[p].kind = kind,
              !.passes[p].diagnostics = diagnostics,
              !.published[V.passes[p].uri] =
                  [pass |-> p,
                   diagnostics |->
                       slice(diagnostics,
                             V.passes[p].settings.maxNumberOfProblems)]]

\* validateDocument after the schema has loaded
Validated(V, p) ==
    Publish(V, p, "validated", validateRegions(V.passes[p].regions, 1))

\* validateDocument that goes on to the regions after getSchemaForDocument
\* threw
SchemaFailed_validates(V, p) ==
    Publish(V, p, "schemaFailed",
            <<SchemaLoadDiagnostic>> \o validateRegions(V.passes[p].regions, 1))

\* validateDocument when getSchemaForDocument throws
SchemaFailed(V, p) ==
    Publish(V, p, "schemaFailed", <<SchemaLoadDiagnostic>>)

InitValidationIdle ==
    /\ workspaceVersionCache = EmptyMap
    /\ datasetFiles = [u \in SidecarUris |-> <<NoDescription>>]
    /\ val = InitValidation([u \in SidecarUris |-> <<>>])

\* the first sidecar has any of the texts and directory chains, the second
\* one region and a dataset description with a version
InitValidationPass ==
    /\ workspaceVersionCache = EmptyMap
    /\ \E chain \in DirectoryChains :
         datasetFiles = [u \in SidecarUris |->
                            IF u = "file:///ds/a.json" THEN chain
                            ELSE <<Description("string", V830Score, <<>>)>>]
    /\ \E text \in SidecarTexts :
         val = InitValidation([u \in SidecarUris |->
                                  IF u = "file:///ds/a.json" THEN text
                                  ELSE <<HedRegion(HedB, 9)>>])

\* validateDocumentNow(document) from `await getDocumentSettings` having
\* returned `settings`, up to the await of buildSchemasFromVersion (a document
\* without regions, and a schema found in the cache, complete the pass)
ValidateNow(uri, settings) ==
    /\ Len(val.passes) < MaxPasses
    /\ LET regions == val.docs[uri]
           p == Len(val.passes) + 1
           V == [val EXCEPT !.passes = Append(@, NewPass(uri, settings, regions))]
       IN  IF regions = <<>>
           THEN /\ val' = Publish(V, p, "noRegions", <<>>)
                /\ UNCHANGED <<varsSchema, workspaceVersionCache>>
           ELSE LET current == IF settings.schemaVersion # <<>>
                               THEN setCurrentVersion(settings.schemaVersion)
                               ELSE currentVersion
                    found == detectSchemaVersion(workspaceVersionCache, uri,
                                                 datasetFiles[uri])
                    version == versionForDocument(found.version, current)
                    nv == normalizedVersion(version, current)
                    c == Len(schemaCalls) + 1
                    V1 == [V EXCEPT !.passes[p].call = c,
                                    !.passes[p].walked = found.walked,
                                    !.passes[p].detected = found.version]
                IN  /\ Len(schemaCalls) < MaxSchemaCalls
                    /\ currentVersion' = current
                    /\ workspaceVersionCache' = found.cache
                    /\ UNCHANGED schemaCache
                    /\ IF nv \in DOMAIN schemaCache
                       THEN /\ schemaCalls' = Append(schemaCalls,
                                  [version |-> version, nv |-> nv,
                                   pc |-> "returned", build |-> 0,
                                   result |-> schemaCache[nv]])
                            /\ UNCHANGED builds
                            /\ val' = Validated(V1, p)
                       ELSE /\ builds' = Append(builds,
                                  [arg |-> nv, state |-> "pending"])
                            /\ schemaCalls' = Append(schemaCalls,
                                  [version |-> version, nv |-> nv,
                                   pc |-> "building",
                                   build |-> Len(builds) + 1, result |-> 0])
                            /\ val' = V1
    /\ UNCHANGED datasetFiles

\* getSchema call c was made by a validation pass that is suspended in it
IsPassCall(c) ==
    \E p \in 1..Len(val.passes) :
        val.passes[p].call = c /\ val.passes[p].pc = "loadingSchema"

\* the pass suspended in getSchema call c
PassOf(c) ==
    CHOOSE p \in 1..Len(val.passes) :
        val.passes[p].call = c /\ val.passes[p].pc = "loadingSchema"

\* buildSchemasFromVersion resolves for a pass: its regions are validated and
\* the diagnostics sent
PassSchemaLoads ==
    \E c \in 1..Len(schemaCalls) :
        /\ IsPassCall(c)
        /\ BuildResolves(c)
        /\ val' = Validated(val, PassOf(c))
        /\ UNCHANGED <<workspaceVersionCache, datasetFiles>>

\* buildSchemasFromVersion rejects for a pass: getSchema rethrows, and
\* validateDocument returns the one diagnostic of its catch block
PassSchemaFails ==
    \E c \in 1..Len(schemaCalls) :
        /\ IsPassCall(c)
        /\ BuildRejects(c)
        /\ val' = SchemaFailed(val, PassOf(c))
        /\ UNCHANGED <<workspaceVersionCache, datasetFiles>>

\* the client edits the document: the TextDocuments manager replaces the
\* text of the document object the passes were given (the passes the edit
\* and a later save start are ValidateNow)
DocumentEdited(uri) ==
    /\ \E text \in SidecarTexts \cup {<<HedRegion(HedB, 9)>>} :
          /\ text # val.docs[uri]
          /\ val' = [val EXCEPT !.docs[uri] = text]
    /\ UNCHANGED <<workspaceVersionCache, datasetFiles>>

\* the settings getDocumentSettings returns for each sidecar: the first is
\* configured for 8.3.0, the second has the default settings
ConfiguredSettings ==
    [uri \in SidecarUris |->
        IF uri = "file:///ds/a.json"
        THEN [schemaVersion |-> V830, maxNumberOfProblems |-> 100]
        ELSE [schemaVersion |-> DEFAULT_BASE_VERSION, maxNumberOfProblems |-> 100]]

\* onCompletion for a document, in a top-level, child or partial context:
\* getCompletionsForContext calls getTopLevelTags(), getChildTags(parent) or
\* searchTagsContaining(prefix) without a version, and they call
\* getSchema(undefined).  strIn keeps the document and strOut the version
\* the vocabulary was asked for.
CompletionRequest(uri) ==
    /\ GetSchemaWith(currentVersion)
    /\ strOp' = "onCompletion"
    /\ strIn' = <<uri>>
    /\ strOut' = normalizedVersion(currentVersion, currentVersion)
    /\ UNCHANGED <<strTag, varsVal>>

\* the sidecars of the model with their configured settings; the second
\* has a dataset description with a version or none
InitVersionsPass ==
    /\ workspaceVersionCache = EmptyMap
    /\ \E chain \in DirectoryChains, other \in {NoDescription,
                                   Description("string", V830Score, <<>>)} :
         datasetFiles = [u \in SidecarUris |->
                            IF u = "file:///ds/a.json" THEN chain
                            ELSE <<other>>]
    /\ val = InitValidation([u \in SidecarUris |-> <<HedRegion(HedB, 9)>>])

\* the vocabulary a completion request waits for is built, or its build
\* fails (provideCompletions' caller catches the error)
CompletionSchemaReturns ==
    /\ \E c \in 1..Len(schemaCalls) :
          ~IsPassCall(c) /\ (BuildResolves(c) \/ BuildRejects(c))
    /\ UNCHANGED <<varsStr, varsVal>>

\* clearWorkspaceCache()
ClearWorkspaceCache ==
    /\ workspaceVersionCache' = EmptyMap
    /\ UNCHANGED <<datasetFiles, val>>

\* the file system changes between two passes: a dataset_description.json
\* with a version is written into the directory of the document
WrittenDescription == Description("string", DEFAULT_BASE_VERSION, <<>>)
DescriptionWritten(uri) ==
    /\ datasetFiles[uri][1] # WrittenDescription
    /\ datasetFiles' =
           [datasetFiles EXCEPT ![uri] = <<WrittenDescription>> \o Tail(@)]
    /\ UNCHANGED <<workspaceVersionCache, val>>

(***************************************************************************)
(* schemaManager: getAllSchemaObjects, getChildTags                        *)
(***************************************************************************)
\* A tag entry of a schema: its name, the name of its parent (Null for a
\* top-level tag) and its inLibrary attribute (Null when it has none).
SchemaEntry(name, parent, inLibrary) ==
    [name |-> name, parent |-> parent, inLibrary |-> inLibrary]

\* A Schemas collection: the map `schemas` from prefix to schema, in
\* insertion order, and `baseSchema`, the index of the base schema in it
\* (0 when there is none).
\* getAllSchemaObjects: the library schemas from map entry i on
RECURSIVE librarySchemaObjects(_, _)
librarySchemaObjects(schemas, i) ==
    IF i > Len(schemas.schemas) THEN <<>>
    ELSE (IF schemas.schemas[i].prefix # <<>> /\ i # schemas.baseSchema
          THEN <<[schema |-> schemas.schemas[i].tags,
                  prefix |-> schemas.schemas[i].prefix \o <<":">>]>>
          ELSE <<>>)
             \o librarySchemaObjects(schemas, i + 1)

\* getAllSchemaObjects(schemas)
getAllSchemaObjects(schemas) ==
    (IF schemas.baseSchema # 0
     THEN <<[schema |-> schemas.schemas[schemas.baseSchema].tags,
             prefix |-> <<>>]>>
     ELSE <<>>)
        \o librarySchemaObjects(schemas, 1)

\* isTagFromLibrary(entry, libraryPrefix); libraryPrefix ends with ":"
isTagFromLibrary(entry, libraryPrefix) ==
    IF libraryPrefix = <<>> THEN TRUE
    ELSE IF entry.inLibrary # Null
         THEN LET prefixWithoutColon ==
                      SubSeq(libraryPrefix, 1, Len(libraryPrefix) - 1)
              IN  \/ entry.inLibrary = prefixWithoutColon
                  \/ toLowerCase(entry.inLibrary) = toLowerCase(prefixWithoutColon)
         ELSE FALSE

\* schemaEntryToHedTag(entry, prefix): the tag in a sequence, <<>> for null
schemaEntryToHedTag(entry, prefix) ==
    IF prefix # <<>> /\ ~isTagFromLibrary(entry, prefix) THEN <<>>
    ELSE <<[shortForm |-> prefix \o entry.name, parent |-> entry.parent]>>

\* getChildTags: the loop over the entries of one schema
RECURSIVE childrenIn(_, _, _)
childrenIn(tags, prefix, cleanParent) ==
    IF tags = <<>> THEN <<>>
    ELSE (IF /\ tags[1].parent # Null
             /\ toLowerCase(tags[1].parent) = toLowerCase(cleanParent)
          THEN schemaEntryToHedTag(tags[1], prefix)
          ELSE <<>>)
             \o childrenIn(Tail(tags), prefix, cleanParent)

\* getChildTags: the loop over the schema objects
RECURSIVE childrenOf(_, _)
childrenOf(schemaList, cleanParent) ==
    IF schemaList = <<>> THEN <<>>
    ELSE childrenIn(schemaList[1].schema, schemaList[1].prefix, cleanParent)
             \o childrenOf(Tail(schemaList), cleanParent)

\* getChildTags: parentShortForm without its prefix
cleanParentOf(parentShortForm) ==
    IF includes(parentShortForm, ":")
    THEN split(parentShortForm, ":")[2]
    ELSE parentShortForm

\* getChildTags that looks at the base schema only and compares the parent
\* as it is written
getChildTags_baseOnly(parentShortForm, schemas) ==
    IF schemas.baseSchema = 0 THEN <<>>
    ELSE LET tags == schemas.schemas[schemas.baseSchema].tags
         IN  SelectSeq([i \in 1..Len(tags) |->
                           [shortForm |-> tags[i].name, parent |-> tags[i].parent]],
                       LAMBDA tag : tag.parent = parentShortForm)

\* getChildTags(parentShortForm), on the Schemas that getSchema returned
getChildTags(parentShortForm, schemas) ==
    childrenOf(getAllSchemaObjects(schemas), cleanParentOf(parentShortForm))

\* The vocabularies of the model.  The base schema has Animal > Bird > Owl
\* and Animal > Cat; the library schema "sc" holds the base tags again
\* (without inLibrary) and its own tags Animal > Eel and Eel > Fry, whose
\* inLibrary attribute is one of the names below.
AnimalName == <<"A", "n", "i", "m", "a", "l">>
BirdName == <<"B", "i", "r", "d">>
CatName == <<"C", "a", "t">>
OwlName == <<"O", "w", "l">>
EelName == <<"E", "e", "l">>
FryName == <<"F", "r", "y">>
ScPrefix == <<"s", "c">>
LibraryNames == {<<"s", "c">>, <<"S", "C">>, <<"s", "c", "o", "r", "e">>}

BaseTags ==
    << SchemaEntry(AnimalName, Null, Null),
       SchemaEntry(BirdName, AnimalName, Null),
       SchemaEntry(OwlName, BirdName, Null),
       SchemaEntry(CatName, AnimalName, Null) >>

LibraryTags(eelLibrary, fryLibrary) ==
    << SchemaEntry(AnimalName, Null, Null),
       SchemaEntry(BirdName, AnimalName, Null),
       SchemaEntry(EelName, AnimalName, eelLibrary),
       SchemaEntry(FryName, EelName, fryLibrary) >>

SchemasValues ==
    { [baseSchema |-> 1,
       schemas |-> <<[prefix |-> <<>>, tags |-> BaseTags]>>] }
    \cup
    { [baseSchema |-> 1,
       schemas |-> <<[prefix |-> <<>>, tags |-> BaseTags],
                     [prefix |-> ScPrefix, tags |-> LibraryTags(e, f)]>>] :
          e \in LibraryNames, f \in LibraryNames }
    \cup
    { [baseSchema |-> 0,
       schemas |-> <<[prefix |-> ScPrefix, tags |-> LibraryTags(e, f)]>>] :
          e \in LibraryNames, f \in LibraryNames }

\* the parents asked for: Animal, animal, Bird, eel, sc:Animal, sc:animal,
\* sc:Eel, Owl (no child) and "sc:" (an empty name)
ParentInputs ==
    { AnimalName, toLowerCase(AnimalName), BirdName, toLowerCase(EelName),
      ScPrefix \o <<":">> \o AnimalName,
      ScPrefix \o <<":">> \o toLowerCase(AnimalName),
      ScPrefix \o <<":">> \o EelName,
      OwlName,
      ScPrefix \o <<":">> }

(***************************************************************************)
(* completion.ts: the cursor context                                       *)
(***************************************************************************)
\* content[i] in JavaScript (0-based): "undefined" outside the string
charAt(content, i) ==
    IF 0 <= i /\ i < Len(content) THEN content[i + 1] ELSE "undefined"

\* String.prototype.slice(start, end): a negative index counts from the end
sliceIndex(content, i) ==
    IF i < 0 THEN (IF Len(content) + i < 0 THEN 0 ELSE Len(content) + i)
    ELSE IF i > Len(content) THEN Len(content) ELSE i
stringSlice(content, start, end) ==
    SubSeq(content, sliceIndex(content, start) + 1, sliceIndex(content, end))

\* String.prototype.trimEnd
trimEnd(s) == SubSeq(s, 1, SkipWsBack(s, Len(s)))

\* String.prototype.lastIndexOf(c), 0-based, -1 when absent
lastIndexOf(s, c) ==
    IF includes(s, c)
    THEN (CHOOSE i \in 1..Len(s) :
              s[i] = c /\ \A k \in (i + 1)..Len(s) : s[k] # c) - 1
    ELSE -1

\* isInsidePlaceholder: the loop from index i on, with the depth so far
RECURSIVE placeholderDepth(_, _, _, _)
placeholderDepth(content, offset, i, depth) ==
    IF i < offset /\ i < Len(content)
    THEN placeholderDepth(content, offset, i + 1,
             IF content[i + 1] = "{" THEN depth + 1
             ELSE IF content[i + 1] = "}" THEN depth - 1
             ELSE depth)
    ELSE depth

\* isInsidePlaceholder that never lets the depth go below 0
RECURSIVE clampedDepth(_, _, _, _)
clampedDepth(content, offset, i, depth) ==
    IF i < offset /\ i < Len(content)
    THEN clampedDepth(content, offset, i + 1,
             IF content[i + 1] = "{" THEN depth + 1
             ELSE IF content[i + 1] = "}" /\ depth > 0 THEN depth - 1
             ELSE depth)
    ELSE depth
isInsidePlaceholder_clamped(content, offset) ==
    clampedDepth(content, offset, 0, 0) > 0

\* isInsidePlaceholder(content, offset)
isInsidePlaceholder(content, offset) ==
    placeholderDepth(content, offset, 0, 0) > 0

\* the separators of getTagAtOffset: /[,()]/
tagSeparators(c) == c \in {",", "(", ")"}

\* getTagAtOffset: the three loops
RECURSIVE tagStart(_, _)
tagStart(hedContent, start) ==
    IF start > 0 /\ ~tagSeparators(charAt(hedContent, start - 1))
    THEN tagStart(hedContent, start - 1) ELSE start
RECURSIVE tagEnd(_, _)
tagEnd(hedContent, end) ==
    IF end < Len(hedContent) /\ ~tagSeparators(charAt(hedContent, end))
    THEN tagEnd(hedContent, end + 1) ELSE end
RECURSIVE trimStart(_, _, _)
trimStart(hedContent, start, end) ==
    IF start < end /\ charAt(hedContent, start) = " "
    THEN trimStart(hedContent, start + 1, end) ELSE start
RECURSIVE trimEndOf(_, _, _)
trimEndOf(hedContent, start, end) ==
    IF end > start /\ charAt(hedContent, end - 1) = " "
    THEN trimEndOf(hedContent, start, end - 1) ELSE end

\* getTagAtOffset(hedContent, offset): <<>> for null
tagBetween(hedContent, start, end) ==
    IF start = end THEN <<>>
    ELSE <<[tag |-> stringSlice(hedContent, start, end),
            start |-> start, end |-> end]>>
tagTrimmed(hedContent, start, end) ==
    tagBetween(hedContent, start, trimEndOf(hedContent, start, end))
getTagAtOffset(hedContent, offset) ==
    tagTrimmed(hedContent,
               trimStart(hedContent, tagStart(hedContent, offset),
                         tagEnd(hedContent, offset)),
               tagEnd(hedContent, offset))

\* the class [A-Za-z0-9_-]
Digits == {"0", "1", "2", "3", "4", "5", "6", "7", "8", "9"}
IsNameChar(c) ==
    \/ \E i \in 1..Len(UpperCase) : UpperCase[i] = c \/ LowerCase[i] = c
    \/ c \in Digits \/ c = "_" \/ c = "-"

\* the first index of the run of name characters that ends at index k
RECURSIVE nameStart(_, _)
nameStart(s, k) ==
    IF k >= 1 /\ IsNameChar(s[k]) THEN nameStart(s, k - 1) ELSE k + 1

\* beforeCursor.match(/([A-Za-z0-9_-]+)\s*\/\s*$/): <<>> for no match, else
\* the captured name in a sequence.  The slash is the last character that
\* is not white space; the name ends before the white space in front of it.
slashAt(beforeCursor) == SkipWsBack(beforeCursor, Len(beforeCursor))
nameEnd(beforeCursor) == SkipWsBack(beforeCursor, slashAt(beforeCursor) - 1)
parentMatch(beforeCursor) ==
    IF /\ slashAt(beforeCursor) >= 1
       /\ beforeCursor[slashAt(beforeCursor)] = "/"
       /\ nameStart(beforeCursor, nameEnd(beforeCursor))
              <= nameEnd(beforeCursor)
    THEN <<SubSeq(beforeCursor,
                  nameStart(beforeCursor, nameEnd(beforeCursor)),
                  nameEnd(beforeCursor))>>
    ELSE <<>>

\* CompletionContext; Null stands for an absent parentTag or prefix
CompletionContext(type, parentTag, prefix, afterSeparator) ==
    [type |-> type, parentTag |-> parentTag, prefix |-> prefix,
     afterSeparator |-> afterSeparator]

\* analyzeCompletionContext: the part after the tests of lastChar
contextOfTag(tagInfo) ==
    IF tagInfo = <<>> THEN CompletionContext("top-level", Null, Null, FALSE)
    ELSE IF lastIndexOf(tagInfo[1].tag, "/") > 0
    THEN CompletionContext("child",
             stringSlice(tagInfo[1].tag, 0, lastIndexOf(tagInfo[1].tag, "/")),
             stringSlice(tagInfo[1].tag, lastIndexOf(tagInfo[1].tag, "/") + 1,
                         Len(tagInfo[1].tag)),
             FALSE)
    ELSE CompletionContext("partial", Null, tagInfo[1].tag, FALSE)

\* analyzeCompletionContext with the slash test alone deciding the context
analyzeCompletionContext_slashOnly(content, offset) ==
    IF charAt(trimEnd(stringSlice(content, 0, offset)),
              Len(trimEnd(stringSlice(content, 0, offset))) - 1) = "/"
    THEN CompletionContext("child", Null, Null, TRUE)
    ELSE contextOfTag(getTagAtOffset(content, offset))

\* analyzeCompletionContext(content, offset)
contextAfter(beforeCursor, lastChar, content, offset) ==
    IF lastChar = "/" /\ parentMatch(beforeCursor) # <<>>
    THEN CompletionContext("child", parentMatch(beforeCursor)[1], Null, TRUE)
    ELSE IF lastChar = "," \/ lastChar = "("
    THEN CompletionContext("top-level", Null, Null, TRUE)
    ELSE contextOfTag(getTagAtOffset(content, offset))
lastCharOf(trimmedBefore) ==
    IF Len(trimmedBefore) = 0 THEN ""
    ELSE trimmedBefore[Len(trimmedBefore)]
analyzeCompletionContext(content, offset) ==
    contextAfter(stringSlice(content, 0, offset),
                 lastCharOf(trimEnd(stringSlice(content, 0, offset))),
                 content, offset)

(***************************************************************************)
(* schemaManager: the searches behind completion                           *)
(***************************************************************************)
\* A tag entry with the attributes findExtensibleParents reads
AttributedEntry(name, parent, extensionAllowed, description) ==
    [name |-> name, parent |-> parent, inLibrary |-> Null,
     extensionAllowed |-> extensionAllowed, description |-> description]

\* String.prototype.startsWith, String.prototype.includes(substring)
startsWith(s, p) == Len(p) <= Len(s) /\ SubSeq(s, 1, Len(p)) = p
includesString(s, sub) == indexOf(s, sub, 0) # -1

\* getTopLevelTags: the loops over the entries and over the schema objects
RECURSIVE topLevelIn(_, _)
topLevelIn(tags, prefix) ==
    IF tags = <<>> THEN <<>>
    ELSE (IF tags[1].parent = Null
          THEN schemaEntryToHedTag(tags[1], prefix) ELSE <<>>)
             \o topLevelIn(Tail(tags), prefix)
RECURSIVE topLevelOf(_)
topLevelOf(schemaList) ==
    IF schemaList = <<>> THEN <<>>
    ELSE topLevelIn(schemaList[1].schema, schemaList[1].prefix)
             \o topLevelOf(Tail(schemaList))
getTopLevelTags(schemas) == topLevelOf(getAllSchemaObjects(schemas))

\* searchTagsContaining: the matches of one kind ("prefix", "contains") in
\* the entries of one schema, and over the schema objects
RECURSIVE containingIn(_, _, _, _)
containingIn(tags, prefix, lowerQuery, kind) ==
    IF tags = <<>> THEN <<>>
    ELSE (IF kind = (IF startsWith(toLowerCase(tags[1].name), lowerQuery)
                     THEN "prefix"
                     ELSE IF includesString(toLowerCase(tags[1].name), lowerQuery)
                     THEN "contains" ELSE "none")
          THEN schemaEntryToHedTag(tags[1], prefix) ELSE <<>>)
             \o containingIn(Tail(tags), prefix, lowerQuery, kind)
RECURSIVE containingOf(_, _, _)
containingOf(schemaList, lowerQuery, kind) ==
    IF schemaList = <<>> THEN <<>>
    ELSE containingIn(schemaList[1].schema, schemaList[1].prefix,
                      lowerQuery, kind)
             \o containingOf(Tail(schemaList), lowerQuery, kind)

\* searchTagsContaining(query)
searchTagsContaining(query, schemas) ==
    containingOf(getAllSchemaObjects(schemas), toLowerCase(query), "prefix")
        \o containingOf(getAllSchemaObjects(schemas), toLowerCase(query),
                        "contains")

\* lowerTerm.split(/[-_\s]+/)
IsWordBreak(c) == c = "-" \/ c = "_" \/ IsWs(c)
RECURSIVE splitWords(_, _)
splitWords(s, word) ==
    IF s = <<>> THEN <<word>>
    ELSE IF IsWordBreak(s[1])
    THEN (IF Len(s) > 1 /\ IsWordBreak(s[2])
          THEN splitWords(Tail(s), word)
          ELSE <<word>> \o splitWords(Tail(s), <<>>))
    ELSE splitWords(Tail(s), Append(word, s[1]))

\* findExtensibleParents: the score of one entry
RECURSIVE matchScore(_, _, _)
matchScore(termWords, tagName, description) ==
    IF termWords = <<>> THEN 0
    ELSE (IF includesString(tagName, termWords[1]) THEN 3 ELSE 0)
         + (IF includesString(description, termWords[1]) THEN 1 ELSE 0)
         + matchScore(Tail(termWords), tagName, description)

\* findExtensibleParents: the loops over the entries and the schema objects
RECURSIVE extensibleIn(_, _, _)
extensibleIn(tags, prefix, termWords) ==
    IF tags = <<>> THEN <<>>
    ELSE (IF /\ tags[1].extensionAllowed
             /\ matchScore(termWords, toLowerCase(tags[1].name),
                           toLowerCase(tags[1].description)) > 0
             /\ schemaEntryToHedTag(tags[1], prefix) # <<>>
          THEN <<[shortForm |-> schemaEntryToHedTag(tags[1], prefix)[1].shortForm,
                  matchScore |-> matchScore(termWords, toLowerCase(tags[1].name),
                                            toLowerCase(tags[1].description))]>>
          ELSE <<>>)
             \o extensibleIn(Tail(tags), prefix, termWords)
RECURSIVE extensibleOf(_, _)
extensibleOf(schemaList, termWords) ==
    IF schemaList = <<>> THEN <<>>
    ELSE extensibleIn(schemaList[1].schema, schemaList[1].prefix, termWords)
             \o extensibleOf(Tail(schemaList), termWords)

\* findExtensibleParents(term)
findExtensibleParents(term, schemas) ==
    slice(sortDescending(extensibleOf(getAllSchemaObjects(schemas),
                                      splitWords(toLowerCase(term), <<>>)),
                         "matchScore"),
          10)

(***************************************************************************)
(* completion.ts: the candidates                                           *)
(***************************************************************************)
\* the characters of the model in code-unit order, for the comparison of
\* strings that Array.prototype.sort() and the client's sortText order make
CodeUnits ==
    <<" ", "#", "(", ")", ",", "-", "/">>
        \o <<"0", "1", "2", "3", "4", "5", "6", "7", "8", "9", ":">>
        \o UpperCase \o <<"_">> \o LowerCase \o <<"{", "}">>
CodeUnit(c) == CHOOSE i \in 1..Len(CodeUnits) : CodeUnits[i] = c

\* a < b for strings, by code units
RECURSIVE stringLess(_, _)
stringLess(a, b) ==
    IF b = <<>> THEN FALSE
    ELSE IF a = <<>> THEN TRUE
    ELSE IF a[1] # b[1] THEN CodeUnit(a[1]) < CodeUnit(b[1])
    ELSE stringLess(Tail(a), Tail(b))

\* Array.from(names).sort() of a set of strings
RECURSIVE sortStrings(_)
sortStrings(names) ==
    IF names = {} THEN <<>>
    ELSE LET first == CHOOSE n \in names :
                          \A other \in names \ {n} : stringLess(n, other)
         IN  <<first>> \o sortStrings(names \ {first})

\* the class \w, and \b in front of index i (1-based) of s when s[i] is a
\* word character
IsWordChar(c) == IsNameChar(c) /\ c # "-"
boundaryBefore(s, i) == i = 1 \/ ~IsWordChar(s[i - 1])

\* the index after the run of name characters that starts at index i
RECURSIVE nameRunEnd(_, _)
nameRunEnd(s, i) ==
    IF i <= Len(s) /\ IsNameChar(s[i]) THEN nameRunEnd(s, i + 1) ELSE i

DefinitionMarker == <<"D", "e", "f", "i", "n", "i", "t", "i", "o", "n", "/">>

\* DEFINITION_PATTERN = /\bDefinition\/([A-Za-z0-9_-]+)/g matches at index i
definitionAt(content, i) ==
    /\ i + Len(DefinitionMarker) - 1 <= Len(content)
    /\ SubSeq(content, i, i + Len(DefinitionMarker) - 1) = DefinitionMarker
    /\ boundaryBefore(content, i)
    /\ nameRunEnd(content, i + Len(DefinitionMarker))
           > i + Len(DefinitionMarker)

\* extractDefinitionNames: the exec loop over one region, from index i on
RECURSIVE namesIn(_, _)
namesIn(content, i) ==
    IF i > Len(content) THEN {}
    ELSE IF definitionAt(content, i)
    THEN {SubSeq(content, i + Len(DefinitionMarker),
                 nameRunEnd(content, i + Len(DefinitionMarker)) - 1)}
             \cup namesIn(content, nameRunEnd(content, i + Len(DefinitionMarker)))
    ELSE namesIn(content, i + 1)

\* extractDefinitionNames(document), on the contents of the document's regions
extractDefinitionNames(regions) ==
    sortStrings(UNION {namesIn(regions[r], 1) : r \in 1..Len(regions)})

\* matchesPrefix(tagName, prefix)
matchesPrefix(tagName, prefix) ==
    startsWith(toLowerCase(tagName), toLowerCase(prefix))

\* getSortText(tag, priority)
getSortText(shortForm, priority) ==
    <<priority, "-">> \o toLowerCase(shortForm)

\* A CompletionItem: label, kind, insertText, insertTextFormat, sortText.
\* createCompletionItem(tag, addLeadingSpace)
createCompletionItem(tag, addLeadingSpace) ==
    [label |-> tag.shortForm, kind |-> "Value",
     insertText |-> IF addLeadingSpace THEN <<" ">> \o tag.shortForm
                    ELSE tag.shortForm,
     insertTextFormat |-> "PlainText",
     sortText |-> getSortText(tag.shortForm, "2")]

\* createDefinitionCompletionItem(name, isDefExpand, afterSeparator)
createDefinitionCompletionItem(name, isDefExpand, afterSeparator) ==
    [label |-> name, kind |-> "Reference",
     insertText |-> IF afterSeparator THEN <<" ">> \o name ELSE name,
     insertTextFormat |-> "PlainText",
     sortText |-> <<"1", "-">> \o toLowerCase(name)]

\* Math.round(match.similarity * 100); similarities are in units of 1e-7
similarityPercent(similarity) == (similarity + 50000) \div 100000

\* String(n).padStart(3, '0') for 0 <= n <= 999
DigitChars == <<"0", "1", "2", "3", "4", "5", "6", "7", "8", "9">>
padStart3(n) ==
    <<DigitChars[(n \div 100) + 1], DigitChars[((n \div 10) % 10) + 1],
      DigitChars[(n % 10) + 1]>>

\* createSemanticSuggestionFromMatch(match, searchTerm)
createSemanticSuggestionFromMatch(match, searchTerm) ==
    [label |-> match.prefix \o match.tag, kind |-> "Reference",
     insertText |-> match.prefix \o match.tag,
     insertTextFormat |-> "PlainText",
     sortText |-> <<"4", "-">>
                      \o padStart3(100 - similarityPercent(match.similarity))
                      \o <<"-">> \o toLowerCase(match.prefix \o match.tag)]

\* searchTerm.charAt(0).toUpperCase() + searchTerm.slice(1).toLowerCase()
UpperChar(c) ==
    IF \E i \in 1..Len(LowerCase) : LowerCase[i] = c
    THEN UpperCase[CHOOSE i \in 1..Len(LowerCase) : LowerCase[i] = c]
    ELSE c
extensionName(searchTerm) ==
    IF searchTerm = <<>> THEN <<>>
    ELSE <<UpperChar(searchTerm[1])>> \o toLowerCase(Tail(searchTerm))

\* createExtensionSuggestion(parent, searchTerm)
createExtensionSuggestion(parent, searchTerm) ==
    [label |-> parent.shortForm \o <<"/">> \o extensionName(searchTerm),
     kind |-> "Snippet",
     insertText |-> parent.shortForm \o <<"/">> \o extensionName(searchTerm),
     insertTextFormat |-> "PlainText",
     sortText |-> getSortText(parent.shortForm, "3")]

\* createNoMatchHint(searchTerm)
createNoMatchHint(searchTerm) ==
    [label |-> <<"\"">> \o searchTerm \o <<"\"", " ", "-", " ", "n", "o",
            "t", " ", "f", "o", "u", "n", "d">>, kind |-> "Text",
     insertText |-> <<>>, insertTextFormat |-> "none",
     sortText |-> <<"9", "-", "n", "o", "t", "-", "f", "o", "u", "n", "d">>]

SIMILARITY_THRESHOLD == 3000000   \* 0.3

\* getSemanticSuggestions(query), on what findSimilar(query, 5) returned
getSemanticSuggestions(matches) ==
    SelectSeq(matches, LAMBDA match : match.similarity >= SIMILARITY_THRESHOLD)

\* getCompletionsForContext, case 'child' after Def/ or Def-expand/
RECURSIVE definitionItems(_, _, _)
definitionItems(definitionNames, context, isDefExpand) ==
    IF definitionNames = <<>> THEN <<>>
    ELSE (IF context.prefix = <<>>
             \/ matchesPrefix(definitionNames[1], context.prefix)
          THEN <<createDefinitionCompletionItem(definitionNames[1], isDefExpand,
                                                context.afterSeparator)>>
          ELSE <<>>)
             \o definitionItems(Tail(definitionNames), context, isDefExpand)

\* getCompletionsForContext, case 'child' for a vocabulary parent
RECURSIVE childItems(_, _)
childItems(childTags, context) ==
    IF childTags = <<>> THEN <<>>
    ELSE (IF context.prefix = <<>>
             \/ matchesPrefix(childTags[1].shortForm, context.prefix)
          THEN <<createCompletionItem(childTags[1], context.afterSeparator)>>
          ELSE <<>>)
             \o childItems(Tail(childTags), context)

\* items.some(item => item.label === label)
hasLabel(items, label) == \E i \in 1..Len(items) : items[i].label = label

\* getCompletionsForContext, case 'partial': the loop over semanticMatches
RECURSIVE addSemantic(_, _, _)
addSemantic(items, semanticMatches, prefix) ==
    IF semanticMatches = <<>> THEN items
    ELSE addSemantic(
             IF hasLabel(items, semanticMatches[1].prefix \o semanticMatches[1].tag)
             THEN items
             ELSE Append(items,
                      createSemanticSuggestionFromMatch(semanticMatches[1], prefix)),
             Tail(semanticMatches), prefix)

\* getCompletionsForContext, case 'partial': the loop over extensibleParents
RECURSIVE addExtensions(_, _, _)
addExtensions(items, extensibleParents, prefix) ==
    IF extensibleParents = <<>> THEN items
    ELSE addExtensions(
             IF hasLabel(items, extensibleParents[1].shortForm) THEN items
             ELSE Append(items,
                      createExtensionSuggestion(extensibleParents[1], prefix)),
             Tail(extensibleParents), prefix)

\* getCompletionsForContext, case 'partial' with a prefix; found is what
\* findSimilar(prefix, 5) returned
partialWithHint(items, prefix) ==
    IF items = <<>> THEN <<createNoMatchHint(prefix)>> ELSE items
partialItems(matchingTags, prefix, schemas, found) ==
    partialWithHint(
        IF Len(matchingTags) < 5
        THEN addExtensions(
                 addSemantic([i \in 1..Len(matchingTags) |->
                                 createCompletionItem(matchingTags[i], FALSE)],
                             getSemanticSuggestions(found), prefix),
                 findExtensibleParents(prefix, schemas), prefix)
        ELSE addSemantic([i \in 1..Len(matchingTags) |->
                             createCompletionItem(matchingTags[i], FALSE)],
                         getSemanticSuggestions(found), prefix),
        prefix)

\* whether the 'child' case takes the definition branch
IsDefinitionReference(parentTag) ==
    toLowerCase(parentTag) \in {<<"d", "e", "f">>, <<"d", "e", "f", "-",
            "e", "x", "p", "a", "n", "d">>}

\* getCompletionsForContext(context, document): regions are the contents of
\* the document's HED regions, schemas what getSchema returned and found
\* what findSimilar returns for the prefix
getCompletionsForContext(context, regions, schemas, found) ==
    CASE context.type = "top-level" ->
             [i \in 1..Len(getTopLevelTags(schemas)) |->
                 createCompletionItem(getTopLevelTags(schemas)[i],
                                      context.afterSeparator)]
      [] context.type = "child" ->
             IF context.parentTag = <<>> THEN <<>>
             ELSE IF IsDefinitionReference(context.parentTag)
             THEN definitionItems(extractDefinitionNames(regions), context,
                                  toLowerCase(context.parentTag) = <<"d",
                                          "e", "f", "-", "e", "x", "p", "a",
                                                  "n", "d">>)
             ELSE childItems(getChildTags(context.parentTag, schemas), context)
      [] context.type = "partial" ->
             IF context.prefix = <<>> THEN <<>>
             ELSE partialItems(searchTagsContaining(context.prefix, schemas),
                               context.prefix, schemas, found)
      [] OTHER -> <<>>

\* provideCompletions(document, position) at a position inside a region with
\* this content, at this offset into the content: the context analysed (none
\* inside a placeholder) and the items returned
provideCompletions(content, offset, regions, schemas, found) ==
    IF isInsidePlaceholder(content, offset)
    THEN [context |-> <<>>, items |-> <<>>]
    ELSE [context |-> <<analyzeCompletionContext(content, offset)>>,
          items |-> getCompletionsForContext(
                        analyzeCompletionContext(content, offset),
                        regions, schemas, found)]

(***************************************************************************)
(* Specifications of the string utilities: the input is drawn in the       *)
(* initial state and one action applies the function to it.                *)
(***************************************************************************)
MaxHedLen == 4      \* longest enumerated HED string given to findTagInString
MaxTagLen == 2      \* longest enumerated tag name
MaxPlaceholderLen == 5   \* longest enumerated string given to removePlaceholders

TagSearchAlphabet == {"a", "A", ",", "(", " ", "/", "-"}
TagAlphabet == {"a", "A"}
PlaceholderAlphabet == {"a", ",", "(", ")", "{", "}", " "}

\* "Animal-agent, Event" and "Animal" (spec section 8)
AnimalAgentEvent ==
    <<"A", "n", "i", "m", "a", "l", "-", "a", "g", "e", "n", "t", ",", " ",
      "E", "v", "e", "n", "t">>
Animal == <<"A", "n", "i", "m", "a", "l">>

\* "Tag-a, {col}, Tag-b" and "Tag-a, Tag-b" (spec section 8)
TagAColTagB ==
    <<"T", "a", "g", "-", "a", ",", " ", "{", "c", "o", "l", "}", ",", " ",
      "T", "a", "g", "-", "b">>
TagATagB == <<"T", "a", "g", "-", "a", ",", " ", "T", "a", "g", "-", "b">>
\* "Tag-a,({col}),Tag-b": a placeholder alone in a group between two tags
TagAGroupColTagB ==
    <<"T", "a", "g", "-", "a", ",", "(", "{", "c", "o", "l", "}", ")", ",",
      "T", "a", "g", "-", "b">>

TagSearchInputs ==
    (Strs(TagSearchAlphabet, MaxHedLen)
        \X (Strs(TagAlphabet, MaxTagLen) \ {<<>>}))
    \cup {<<AnimalAgentEvent, Animal>>, <<toLowerCase(AnimalAgentEvent), Animal>>}

PlaceholderInputs ==
    Strs(PlaceholderAlphabet, MaxPlaceholderLen)
    \cup {TagAColTagB, TagAGroupColTagB}

InitServerIdle ==
    /\ hasConfigurationCapability = FALSE
    /\ globalSettings = defaultSettings
    /\ openDocs = {}
    /\ srv = InitServerState

InitTagSearch ==
    /\ InitSchemaManager
    /\ InitServerIdle
    /\ InitEmbIdle
    /\ InitValidationIdle
    /\ strOp = "none"
    /\ \E in \in TagSearchInputs : strIn = in[1] /\ strTag = in[2]
    /\ strOut = Null

\* convertIssue: tagBounds = findTagInString(hedString, tagName)
FindTag ==
    /\ strOp = "none"
    /\ strOp' = "findTagInString"
    /\ strOut' = findTagInString(strIn, strTag)
    /\ UNCHANGED <<strIn, strTag, varsSchema, varsServer, varsEmb, varsVal>>

InitPlaceholder ==
    /\ InitSchemaManager
    /\ InitServerIdle
    /\ InitEmbIdle
    /\ InitValidationIdle
    /\ strOp = "none"
    /\ strIn \in PlaceholderInputs
    /\ strTag = Null
    /\ strOut = Null

\* validateHedString: cleanedHed = removePlaceholders(hedString)
RemovePlaceholders ==
    /\ strOp = "none"
    /\ strOp' = "removePlaceholders"
    /\ strOut' = removePlaceholders(strIn)
    /\ UNCHANGED <<strIn, strTag, varsSchema, varsServer, varsEmb, varsVal>>

MaxVersionLen == 4    \* longest enumerated version string
VersionAlphabet == {"8", ",", " ", ":"}
VersionStrings == Strs(VersionAlphabet, MaxVersionLen) \cup VersionInputs

InitNormalize ==
    /\ InitSchemaManager
    /\ InitServerIdle
    /\ InitEmbIdle
    /\ InitValidationIdle
    /\ strOp = "none"
    /\ strIn \in VersionStrings
    /\ strTag = Null
    /\ strOut = Null

\* setCurrentVersion: normalized = normalizeVersion(version)
NormalizeVersion ==
    /\ strOp = "none"
    /\ strOp' = "normalizeVersion"
    /\ strOut' = normalizeVersion(strIn)
    /\ UNCHANGED <<strIn, strTag, varsSchema, varsServer, varsEmb, varsVal>>

\* getSchema: normalizeVersion applied to a version that is already the
\* result of normalizeVersion (this.currentVersion); strTag keeps the first
\* result
NormalizeVersionAgain ==
    /\ strOp = "normalizeVersion"
    /\ strOp' = "normalizeVersionAgain"
    /\ strTag' = strOut
    /\ strOut' = normalizeVersion(strOut)
    /\ UNCHANGED <<strIn, varsSchema, varsServer, varsEmb, varsVal>>

InitChildTags ==
    /\ InitSchemaManager
    /\ InitServerIdle
    /\ InitEmbIdle
    /\ InitValidationIdle
    /\ strOp = "none"
    /\ strIn \in ParentInputs
    /\ strTag \in SchemasValues
    /\ strOut = Null

\* getChildTags(parentShortForm) after `await this.getSchema(version)` has
\* returned the vocabulary strTag
GetChildTags ==
    /\ strOp = "none"
    /\ strOp' = "getChildTags"
    /\ strOut' = getChildTags(strIn, strTag)
    /\ UNCHANGED <<strIn, strTag, varsSchema, varsServer, varsEmb, varsVal>>

(***************************************************************************)
(* completion.ts: the requests of the model                                *)
(***************************************************************************)
MaxContentLen == 3    \* longest enumerated region content

ContextAlphabet == {"a", "/", ",", " ", "{", "}"}

\* The vocabulary of the completion requests.  Base schema: A > Aa,
\* Animal > Bird > Owl, Animal > Cat; Animal ("wild" in its description),
\* A and Bird allow extension.  Library schema "sc": the base tags Animal
\* and Bird again, and its own tag Animal > Eel.
ATagName == <<"A">>
AaTagName == <<"A", "a">>
CompletionSchemas ==
    [baseSchema |-> 1,
     schemas |->
         <<[prefix |-> <<>>,
            tags |-> <<AttributedEntry(ATagName, Null, TRUE, <<>>),
                       AttributedEntry(AaTagName, ATagName, FALSE, <<>>),
                       AttributedEntry(AnimalName, Null, TRUE, <<"w", "i",
                               "l", "d">>),
                       AttributedEntry(BirdName, AnimalName, TRUE, <<>>),
                       AttributedEntry(OwlName, BirdName, FALSE, <<>>),
                       AttributedEntry(CatName, AnimalName, FALSE, <<>>)>>],
           [prefix |-> ScPrefix,
            tags |-> <<AttributedEntry(AnimalName, Null, TRUE, <<>>),
                       AttributedEntry(BirdName, AnimalName, TRUE, <<>>),
                       [AttributedEntry(EelName, AnimalName, FALSE, <<>>)
                           EXCEPT !.inLibrary = ScPrefix]>>]>>]

\* the other HED regions of the document: none; two definitions, one of
\* them with a placeholder; the same name defined with and without one
GoDefinition == <<"(", "D", "e", "f", "i", "n", "i", "t", "i", "o", "n",
        "/", "G", "o", ",", " ", "(", "a", ")", ")">>
RateDefinition == <<"(", "D", "e", "f", "i", "n", "i", "t", "i", "o", "n",
        "/", "R", "a", "t", "e", "/", "#", ",", " ", "(", "a", ")", ")">>
RatePlainDefinition == <<"(", "D", "e", "f", "i", "n", "i", "t", "i", "o",
        "n", "/", "R", "a", "t", "e", ",", " ", "(", "a", ")", ")">>
OtherRegions ==
    {<<>>, <<GoDefinition, RateDefinition>>,
     <<RatePlainDefinition, RateDefinition>>}

\* what findSimilar(prefix, 5) returns: nothing; a keyword match; matches
\* of the embedding search, by descending similarity
SemanticMatch(tag, prefix, similarity) ==
    [tag |-> tag, prefix |-> prefix, similarity |-> similarity]
FoundValues ==
    {<<>>,
     <<SemanticMatch(AnimalName, <<>>, KEYWORD_MATCH_SIMILARITY)>>,
     <<SemanticMatch(CatName, <<>>, 9400000),
       SemanticMatch(EelName, ScPrefix \o <<":">>, 6250000),
       SemanticMatch(OwlName, <<>>, 6249999),
       SemanticMatch(AaTagName, <<>>, 5000000)>>}

\* the contents asked about with the cursor at their end
ScenarioContents ==
    {AnimalName \o <<"/">>, toLowerCase(AnimalName) \o <<" ", "/", " ">>,
     ScPrefix \o <<":">> \o AnimalName \o <<"/">>,
     BirdName \o <<"/", "O">>, <<"C", "a", "t", ",", " ">>, <<"(", "C", "a",
             "t", ",", " ", "D", "e", "f", "/">>, <<"d", "e", "f", "-", "e",
                     "x", "p", "a", "n", "d", "/", "R">>,
     <<"D", "E", "F", "/", "r", "a", "t", "e", ",", " ", "{", "x",
             "}">>, <<"w", "i", "l", "d", "-", "b", "i", "r", "d">>, <<"b",
                     "i", "r", "d">>, <<"O", "w">>, <<"x", "y",
                             "z">>, <<"(", "C", "a", "t", ",", "/">>,
     <<"C", "a", "t", "/", "/">>, <<"{", "x", "}", "/">>}

\* (content, offset, the other regions, what findSimilar returns)
CompletionInputs ==
    {in \in Strs(ContextAlphabet, MaxContentLen)
                \X (-1..(MaxContentLen + 1))
                \X {<<GoDefinition, RateDefinition>>} \X {<<>>} :
         in[2] <= Len(in[1]) + 1}
    \cup
    {in \in ScenarioContents \X (0..12) \X OtherRegions \X FoundValues :
         in[2] = Len(in[1])}

InitCompletion ==
    /\ strOp = "none"
    /\ \E in \in CompletionInputs :
          /\ strIn = in[1]
          /\ strTag = [offset |-> in[2],
                       regions |-> <<in[1]>> \o in[3],
                       found |-> in[4]]
    /\ strOut = Null

\* a completion request at the offset, in a region with this content
ProvideCompletions ==
    /\ strOp = "none"
    /\ strOp' = "provideCompletions"
    /\ strOut' = provideCompletions(strIn, strTag.offset, strTag.regions,
                                    CompletionSchemas, strTag.found)
    /\ UNCHANGED <<strIn, strTag, varsSchema, varsServer, varsEmb, varsVal>>

(***************************************************************************)
(* hover provider: findDefinitionsInDocument                               *)
(***************************************************************************)
DefinitionOpen == <<"(", "D", "e", "f", "i", "n", "i", "t", "i", "o", "n",
        "/">>

\* defPattern = /\(Definition\/([A-Za-z0-9_-]+)(\/\s*#)?,/g at index i
\* (1-based): <<>> for no match, else the name, whether the placeholder
\* part matched, and the index after the match
definitionMatch(content, i) ==
    IF /\ i + Len(DefinitionOpen) - 1 <= Len(content)
       /\ SubSeq(content, i, i + Len(DefinitionOpen) - 1) = DefinitionOpen
       /\ nameRunEnd(content, i + Len(DefinitionOpen)) > i + Len(DefinitionOpen)
    THEN LET e == nameRunEnd(content, i + Len(DefinitionOpen))
             name == SubSeq(content, i + Len(DefinitionOpen), e - 1)
             h == SkipWs(content, e + 1)
         IN  IF e <= Len(content) /\ content[e] = ","
             THEN <<[name |-> name, hasPlaceholder |-> FALSE, next |-> e + 1]>>
             ELSE IF /\ e <= Len(content) /\ content[e] = "/"
                     /\ h + 1 <= Len(content)
                     /\ content[h] = "#" /\ content[h + 1] = ","
             THEN <<[name |-> name, hasPlaceholder |-> TRUE, next |-> h + 2]>>
             ELSE <<>>
    ELSE <<>>

\* the scan for the closing parenthesis: the 0-based index where it stops
RECURSIVE groupEnd(_, _, _)
groupEnd(content, i, depth) ==
    IF i < Len(content) /\ depth > 0
    THEN groupEnd(content, i + 1,
                  IF content[i + 1] = "(" THEN depth + 1
                  ELSE IF content[i + 1] = ")" THEN depth - 1
                  ELSE depth)
    ELSE i

\* DefinitionLocation
DefinitionLocation(r, content, i, found) ==
    [name |-> found.name, hasPlaceholder |-> found.hasPlaceholder,
     content |-> stringSlice(content, i - 1, groupEnd(content, i, 1)),
     region |-> r, startOffset |-> i - 1,
     endOffset |-> groupEnd(content, i, 1)]

\* definitions.set(name.toLowerCase(), {...})
setDefinition(definitions, location) ==
    OSet(definitions, toLowerCase(location.name), location)

\* findDefinitionsInDocument: the exec loop over region r, from index i on
RECURSIVE definitionsIn(_, _, _, _)
definitionsIn(definitions, r, content, i) ==
    IF i > Len(content) THEN definitions
    ELSE IF definitionMatch(content, i) # <<>>
    THEN definitionsIn(
             setDefinition(definitions,
                 DefinitionLocation(r, content, i, definitionMatch(content, i)[1])),
             r, content, definitionMatch(content, i)[1].next)
    ELSE definitionsIn(definitions, r, content, i + 1)

\* findDefinitionsInDocument: the loop over the regions, from region r on
RECURSIVE definitionsFrom(_, _, _)
definitionsFrom(definitions, regions, r) ==
    IF r > Len(regions) THEN definitions
    ELSE definitionsFrom(definitionsIn(definitions, r, regions[r], 1),
                         regions, r + 1)

\* findDefinitionsInDocument(document), on the contents of the document's
\* regions: the Map as a sequence of (key, value) in insertion order
findDefinitionsInDocument(regions) == definitionsFrom(<<>>, regions, 1)

MaxDefinitions == 3    \* definition groups in one document

\* The groups a document is made of, each with the name it defines and
\* whether it asks for a placeholder value; the last one is a reference and
\* defines nothing.
DefinitionGroup(text, name, hasPlaceholder) ==
    [text |-> text, name |-> name, hasPlaceholder |-> hasPlaceholder]
DefinitionGroups ==
    {DefinitionGroup(GoDefinition, <<"G", "o">>, FALSE),
     DefinitionGroup(RateDefinition, <<"R", "a", "t", "e">>, TRUE),
     DefinitionGroup(RatePlainDefinition, <<"R", "a", "t", "e">>, FALSE),
     DefinitionGroup(<<"(", "D", "e", "f", "i", "n", "i", "t", "i", "o",
             "n", "/", "G", "o", "/", " ", "#", ",", " ", "(", "(", "a",
                     ")", ",", " ", "b", ")", ")">>, <<"G", "o">>, TRUE),
     DefinitionGroup(<<"(", "D", "e", "f", "/", "R", "a", "t", "e", "/",
             "3", ",", " ", "a", ")">>, <<>>, FALSE)}

\* the groups as one region, separated by ", "
RECURSIVE oneRegion(_)
oneRegion(groups) ==
    IF groups = <<>> THEN <<>>
    ELSE IF Len(groups) = 1 THEN groups[1].text
    ELSE groups[1].text \o <<",", " ">> \o oneRegion(Tail(groups))

\* the documents: up to MaxDefinitions groups, in the order they are written
DefinitionDocuments ==
    UNION {[1..n -> DefinitionGroups] : n \in 0..MaxDefinitions}

InitDefinitions ==
    /\ strOp = "none"
    /\ strTag \in DefinitionDocuments
    /\ strIn \in {IF strTag = <<>> THEN <<>> ELSE <<oneRegion(strTag)>>,
                  [i \in 1..Len(strTag) |-> strTag[i].text]}
    /\ strOut = Null

\* hover over a definition reference: the definitions of the document
FindDefinitionsInDocument ==
    /\ strOp = "none"
    /\ strOp' = "findDefinitionsInDocument"
    /\ strOut' = findDefinitionsInDocument(strIn)
    /\ UNCHANGED <<strIn, strTag, varsSchema, varsServer, varsEmb, varsVal>>

(***************************************************************************)
(* documentParser.ts: locateHedRegion                                      *)
(***************************************************************************)
Quote == "\""
Backslash == "\\"
Newline == "\n"
Tab == "\t"

\* String.prototype.replace(/literal/g, repl) for a literal pattern
RECURSIVE replaceLiteral(_, _, _)
replaceLiteral(s, literal, repl) ==
    IF s = <<>> THEN <<>>
    ELSE IF startsWith(s, literal)
    THEN repl \o replaceLiteral(SubSeq(s, Len(literal) + 1, Len(s)),
                                literal, repl)
    ELSE <<s[1]>> \o replaceLiteral(Tail(s), literal, repl)

\* unescapeJsonString(str): five replacements, one after the other
unescapeJsonString(str) ==
    replaceLiteral(
        replaceLiteral(
            replaceLiteral(
                replaceLiteral(
                    replaceLiteral(str, <<Backslash, Quote>>, <<Quote>>),
                    <<Backslash, Backslash>>, <<Backslash>>),
                <<Backslash, "n">>, <<Newline>>),
            <<Backslash, "r">>, <<"\r">>),
        <<Backslash, "t">>, <<Tab>>)

\* new RegExp(`"${key}"\s*:\s*"`) matched at index i (1-based): the index
\* of the last character of the match, 0 when there is no match at i
keyMatchEnd(text, key, i) ==
    IF /\ i + Len(key) + 1 <= Len(text)
       /\ SubSeq(text, i, i + Len(key) + 1) = <<Quote>> \o key \o <<Quote>>
       /\ SkipWs(text, i + Len(key) + 2) <= Len(text)
       /\ text[SkipWs(text, i + Len(key) + 2)] = ":"
       /\ SkipWs(text, SkipWs(text, i + Len(key) + 2) + 1) <= Len(text)
       /\ text[SkipWs(text, SkipWs(text, i + Len(key) + 2) + 1)] = Quote
    THEN SkipWs(text, SkipWs(text, i + Len(key) + 2) + 1)
    ELSE 0

\* keyPattern.exec(text.slice(searchStart)) with searchStart = 0: valueStart,
\* the 0-based offset after the match, -1 when there is none
RECURSIVE valueStartFrom(_, _, _)
valueStartFrom(text, key, i) ==
    IF i > Len(text) THEN -1
    ELSE IF keyMatchEnd(text, key, i) # 0 THEN keyMatchEnd(text, key, i)
    ELSE valueStartFrom(text, key, i + 1)

\* the loop that finds the end of the string value: valueEnd (0-based),
\* which stays at valueStart when no closing quote is found
RECURSIVE valueEndFrom(_, _, _, _)
valueEndFrom(text, i, escaped, valueStart) ==
    IF i >= Len(text) THEN valueStart
    ELSE IF escaped THEN valueEndFrom(text, i + 1, FALSE, valueStart)
    ELSE IF text[i + 1] = Backslash
    THEN valueEndFrom(text, i + 1, TRUE, valueStart)
    ELSE IF text[i + 1] = Quote THEN i
    ELSE valueEndFrom(text, i + 1, FALSE, valueStart)

\* the region locateHedRegion returns from valueStart and valueEnd
LocatedRegion(text, valueStart, valueEnd) ==
    [content |-> unescapeJsonString(SubSeq(text, valueStart + 1, valueEnd)),
     contentOffset |-> valueStart,
     range |-> [start |-> positionAt(valueStart - 1),
                end |-> positionAt(valueEnd + 1)]]

\* locateHedRegion(text, path, document) for a path of one key: the regions
\* parseJsonForHedStrings pushes for it
locateFrom(text, valueStart) ==
    IF valueStart = -1 THEN <<>>
    ELSE <<LocatedRegion(text, valueStart,
                         valueEndFrom(text, valueStart, FALSE, valueStart))>>
locateHedRegion(text, key) == locateFrom(text, valueStartFrom(text, key, 1))

(***************************************************************************)
(* tsvParser.ts: parseTsvForHedStrings                                     *)
(***************************************************************************)
\* unquoteTsvCell(content)
unquoteTsvCell(content) ==
    IF startsWith(trim(content), <<Quote>>)
       /\ trim(content)[Len(trim(content))] = Quote
    THEN replaceLiteral(stringSlice(trim(content), 1, -1),
                        <<Quote, Quote>>, <<Quote>>)
    ELSE trim(content)

\* line[i] for a 0-based i; "undefined" at and beyond the end of the line
lineChar(line, i) == IF i < Len(line) THEN line[i + 1] ELSE "undefined"

\* parseTsvLine(line): the while loop from index i (0-based)
TsvCell(line, currentStart, i) ==
    [content |-> unquoteTsvCell(SubSeq(line, currentStart + 1, i)),
     startOffset |-> currentStart,
     endOffset |-> i]
RECURSIVE parseTsvLineFrom(_, _, _, _)
parseTsvLineFrom(line, i, inQuotes, currentStart) ==
    IF i > Len(line) THEN <<>>
    ELSE IF lineChar(line, i) = Quote /\ ~inQuotes
    THEN parseTsvLineFrom(line, i + 1, TRUE, currentStart)
    ELSE IF lineChar(line, i) = Quote /\ inQuotes
    THEN (IF lineChar(line, i + 1) = Quote
          THEN parseTsvLineFrom(line, i + 2, TRUE, currentStart)
          ELSE parseTsvLineFrom(line, i + 1, FALSE, currentStart))
    ELSE IF (lineChar(line, i) = Tab \/ i = Len(line)) /\ ~inQuotes
    THEN <<TsvCell(line, currentStart, i)>>
             \o parseTsvLineFrom(line, i + 1, FALSE, i + 1)
    ELSE parseTsvLineFrom(line, i + 1, inQuotes, currentStart)
parseTsvLine(line) == parseTsvLineFrom(line, 0, FALSE, 0)

\* findHedColumn(headerLine): the 0-based index of the HED column, -1 when
\* there is none
RECURSIVE hedColumnFrom(_, _)
hedColumnFrom(headers, i) ==
    IF i >= Len(headers) THEN -1
    ELSE IF toLowerCase(trim(headers[i + 1].content)) = <<"h", "e", "d">>
    THEN i
    ELSE hedColumnFrom(headers, i + 1)
findHedColumn(headerLine) == hedColumnFrom(parseTsvLine(headerLine), 0)

\* getCellAtIndex(line, index): <<cell>>, or <<>> for null
cellAt(cells, index) ==
    IF index >= 0 /\ index < Len(cells) THEN <<cells[index + 1]>> ELSE <<>>
getCellAtIndex(line, index) == cellAt(parseTsvLine(line), index)

\* document.positionAt(offset) on a document of several lines
RECURSIVE lineStartBefore(_, _)
lineStartBefore(text, offset) ==
    IF offset = 0 \/ text[offset] = Newline THEN offset
    ELSE lineStartBefore(text, offset - 1)
clampOffset(text, offset) ==
    IF offset < 0 THEN 0 ELSE IF offset > Len(text) THEN Len(text) ELSE offset
documentPositionAt(text, offset) ==
    [line |-> Cardinality({k \in 1..clampOffset(text, offset) :
                              text[k] = Newline}),
     character |-> clampOffset(text, offset)
                       - lineStartBefore(text, clampOffset(text, offset))]

\* the region pushed for a cell of a data row
CellRegion(text, cell, currentOffset) ==
    [content |-> cell.content,
     contentOffset |-> currentOffset + cell.startOffset,
     range |-> [start |-> documentPositionAt(text,
                              currentOffset + cell.startOffset),
                end |-> documentPositionAt(text,
                            currentOffset + cell.startOffset
                                + Len(cell.content))]]

\* parseTsvForHedStrings: the loop over the data rows from lines[lineIndex]
cellRegions(text, cell, currentOffset) ==
    IF cell # <<>> /\ trim(cell[1].content) # <<>>
    THEN <<CellRegion(text, cell[1], currentOffset)>>
    ELSE <<>>
RECURSIVE rowRegionsFrom(_, _, _, _, _)
rowRegionsFrom(text, lines, lineIndex, hedColumnIndex, currentOffset) ==
    IF lineIndex >= Len(lines) THEN <<>>
    ELSE (IF trim(lines[lineIndex + 1]) = <<>> THEN <<>>
          ELSE cellRegions(text,
                           getCellAtIndex(lines[lineIndex + 1], hedColumnIndex),
                           currentOffset))
             \o rowRegionsFrom(text, lines, lineIndex + 1, hedColumnIndex,
                               currentOffset + Len(lines[lineIndex + 1]) + 1)

\* parseTsvForHedStrings(document)
tsvRegions(text, lines) ==
    IF findHedColumn(lines[1]) = -1 THEN <<>>
    ELSE rowRegionsFrom(text, lines, 1, findHedColumn(lines[1]),
                        Len(lines[1]) + 1)
parseTsvForHedStrings(text) == tsvRegions(text, split(text, Newline))

(***************************************************************************)
(* documentParser.ts, tsvParser.ts: the documents of the model             *)
(***************************************************************************)
MaxJsonTokens == 3   \* characters and escape sequences in a JSON value
MaxRows == 2         \* data rows of a tabular document

\* what a JSON string value is written with: characters and the escape
\* sequences \" \\ \n
JsonTokens ==
    {<<"A">>, <<",">>, <<Backslash, Quote>>, <<Backslash, Backslash>>,
     <<Backslash, "n">>}
RECURSIVE JsonValues(_)
JsonValues(n) ==
    IF n = 0 THEN {<<>>}
    ELSE JsonValues(n - 1)
             \cup {v \o t : v \in JsonValues(n - 1), t \in JsonTokens}

\* the sidecar {"HED": "<value>"}
HedKey == <<"H", "E", "D">>
JsonDocument(value) ==
    <<"{", Quote>> \o HedKey \o <<Quote, ":", " ", Quote>> \o value
        \o <<Quote, "}">>

\* parseJsonForHedStrings(document) on such a sidecar: JSON.parse accepts
\* it, findHedPaths returns the one path ["HED"]
parseJsonForHedStrings(text) == locateHedRegion(text, HedKey)

\* the HED cells of the rows: plain, quoted, after a space, quoted with a
\* doubled quote, empty
TsvHedCells ==
    {<<"A">>, <<Quote, "A", ",", " ", "B", Quote>>, <<" ", "A">>,
     <<Quote, "A", Quote, Quote, "B", Quote>>, <<>>}
TsvHeaders ==
    {<<"o", "n", "s", "e", "t", Tab, "H", "E", "D">>,
     <<"o", "n", "s", "e", "t", Tab, "x">>}
RECURSIVE TsvRows(_)
TsvRows(n) ==
    IF n = 0 THEN {<<>>}
    ELSE TsvRows(n - 1)
             \cup {rows \o <<Newline, "1", Tab>> \o cell :
                      rows \in TsvRows(n - 1), cell \in TsvHedCells}
TsvDocuments == {header \o rows : header \in TsvHeaders, rows \in TsvRows(MaxRows)}

\* strIn is the text of the document, strTag its kind
InitParse ==
    /\ strOp = "none"
    /\ strOut = Null
    /\ \/ strTag = <<"json">>
          /\ strIn \in {JsonDocument(v) : v \in JsonValues(MaxJsonTokens)}
       \/ strTag = <<"tsv">> /\ strIn \in TsvDocuments

ParseJsonForHedStrings ==
    /\ strOp = "none"
    /\ strTag = <<"json">>
    /\ strOp' = "parseJsonForHedStrings"
    /\ strOut' = parseJsonForHedStrings(strIn)
    /\ UNCHANGED <<strIn, strTag, varsSchema, varsServer, varsEmb, varsVal>>

ParseTsvForHedStrings ==
    /\ strOp = "none"
    /\ strTag = <<"tsv">>
    /\ strOp' = "parseTsvForHedStrings"
    /\ strOut' = parseTsvForHedStrings(strIn)
    /\ UNCHANGED <<strIn, strTag, varsSchema, varsServer, varsEmb, varsVal>>

(***************************************************************************)
(* completion.ts: a completion request in a partial context                *)
(***************************************************************************)
\* the prefixes typed; the settings a configuration change may bring
SemanticQueries == {Marmoset, Click, Bird}
SemanticSettingsValues ==
    {[defaultSettings EXCEPT !.enableSemanticSearch = b] : b \in BOOLEAN}

\* getSemanticSuggestions(prefix): embeddingsManager.findSimilar(query, 5)
\* up to its first await
getSemanticSuggestionsCall(E, query) ==
    findSimilar([E EXCEPT !.calls = Append(@, NewCall("findSimilar", query, 5))],
                Len(E.calls) + 1)

\* onCompletion in a partial context with a prefix: getCompletionsForContext
\* awaits searchTagsContaining(prefix), which awaits getSchema(), and then
\* calls getSemanticSuggestions(prefix).  strOp is where the request is,
\* strIn the prefix, strTag the getSchema call it waits for.
PartialCompletionRequest ==
    /\ strOp \in {"none", "getSemanticSuggestions", "returned"}
    /\ Len(emb.calls) < MaxEmbCalls
    /\ GetSchemaWith(currentVersion)
    /\ \E query \in SemanticQueries :
          /\ strIn' = query
          /\ IF normalizedVersion(currentVersion, currentVersion)
                    \in DOMAIN schemaCache
             THEN /\ strOp' = "getSemanticSuggestions"
                  /\ emb' = getSemanticSuggestionsCall(emb, query)
             ELSE /\ strOp' = "searchTagsContaining"
                  /\ emb' = emb
    /\ strTag' = <<Len(schemaCalls) + 1>>
    /\ UNCHANGED <<strOut, varsServer, varsVal>>

\* the vocabulary the request waits for is built: the direct matches are
\* collected and getSemanticSuggestions(prefix) is called
PartialSchemaLoads ==
    /\ strOp = "searchTagsContaining"
    /\ BuildResolves(strTag[1])
    /\ strOp' = "getSemanticSuggestions"
    /\ emb' = getSemanticSuggestionsCall(emb, strIn)
    /\ UNCHANGED <<strIn, strTag, strOut, varsServer, varsVal>>

\* the build fails: provideCompletions throws and onCompletion returns []
PartialSchemaFails ==
    /\ strOp = "searchTagsContaining"
    /\ BuildRejects(strTag[1])
    /\ strOp' = "returned"
    /\ UNCHANGED <<strIn, strTag, strOut, varsServer, varsEmb, varsVal>>

InitStrIdle ==
    /\ strOp = "none"
    /\ strIn = Null
    /\ strTag = Null
    /\ strOut = Null

InitSchema ==
    InitSchemaManager /\ InitStrIdle /\ InitServerIdle /\ InitEmbIdle
        /\ InitValidationIdle

NextSchema ==
    \/ GetSchema /\ UNCHANGED <<varsStr, varsServer, varsEmb, varsVal>>
    \/ BuildReturns /\ UNCHANGED <<varsStr, varsServer, varsEmb, varsVal>>
    \/ SetCurrentVersion /\ UNCHANGED <<varsStr, varsServer, varsEmb, varsVal>>
    \/ ClearCache /\ UNCHANGED <<varsStr, varsServer, varsEmb, varsVal>>

SpecSchema == InitSchema /\ [][NextSchema]_vars

Init ==
    InitServer /\ InitSchemaManager /\ InitStrIdle /\ InitEmbIdle
        /\ InitValidationIdle

Next ==
    \/ \E uri \in Uris : DidOpen(uri) /\ UNCHANGED <<varsStr, varsSchema, varsEmb, varsVal>>
    \/ \E uri \in Uris : DidChangeContent(uri) /\ UNCHANGED <<varsStr, varsSchema, varsEmb, varsVal>>
    \/ \E uri \in Uris : DidSave(uri) /\ UNCHANGED <<varsStr, varsSchema, varsEmb, varsVal>>
    \/ \E uri \in Uris : DidClose(uri) /\ UNCHANGED <<varsStr, varsSchema, varsEmb, varsVal>>
    \/ \E hed \in SettingsValues : DidChangeConfiguration(hed)
           /\ UNCHANGED <<varsStr, varsEmb, varsVal>>
    \/ \E p \in 1..Len(srv.promises) : \E hed \in SettingsValues :
           SettingsSettle(p, "fulfilled", hed) /\ UNCHANGED <<varsStr, varsSchema, varsEmb, varsVal>>
    \/ \E p \in 1..Len(srv.promises) :
           SettingsSettle(p, "rejected", defaultSettings)
               /\ UNCHANGED <<varsStr, varsSchema, varsEmb, varsVal>>
    \/ \E t \in srv.liveTimers : TimerFires(t) /\ UNCHANGED <<varsStr, varsSchema, varsEmb, varsVal>>

Spec == Init /\ [][Next]_vars

InitEmbeddings ==
    InitEmb /\ InitSchemaManager /\ InitStrIdle /\ InitServerIdle
        /\ InitValidationIdle

NextEmbeddings ==
    \/ InitializeModel /\ UNCHANGED <<varsStr, varsSchema, varsServer, varsVal>>
    \/ Embed /\ UNCHANGED <<varsStr, varsSchema, varsServer, varsVal>>
    \/ FindSimilar /\ UNCHANGED <<varsStr, varsSchema, varsServer, varsVal>>
    \/ LoadModelReturns /\ UNCHANGED <<varsStr, varsSchema, varsServer, varsVal>>
    \/ ExtractorReturns /\ UNCHANGED <<varsStr, varsSchema, varsServer, varsVal>>

SpecEmbeddings == InitEmbeddings /\ [][NextEmbeddings]_vars

InitValidationSpec ==
    InitValidationPass /\ InitSchemaManager /\ InitStrIdle /\ InitServerIdle
        /\ InitEmbIdle

NextValidation ==
    \/ \E in \in PassInputs :
           ValidateNow(in[1], in[2]) /\ UNCHANGED <<varsStr, varsServer, varsEmb>>
    \/ PassSchemaLoads /\ UNCHANGED <<varsStr, varsServer, varsEmb>>
    \/ PassSchemaFails /\ UNCHANGED <<varsStr, varsServer, varsEmb>>
    \/ ClearWorkspaceCache /\ UNCHANGED <<varsStr, varsSchema, varsServer, varsEmb>>
    \/ DescriptionWritten("file:///ds/a.json")
           /\ UNCHANGED <<varsStr, varsSchema, varsServer, varsEmb>>

SpecValidation == InitValidationSpec /\ [][NextValidation]_vars

\* validation passes of the first sidecar under the workspace settings, and
\* configuration changes between them
NextConfiguration ==
    \/ ValidateNow("file:///ds/a.json",
                   [schemaVersion |-> <<>>, maxNumberOfProblems |-> 100])
           /\ UNCHANGED <<varsStr, varsServer, varsEmb>>
    \/ PassSchemaLoads /\ UNCHANGED <<varsStr, varsServer, varsEmb>>
    \/ PassSchemaFails /\ UNCHANGED <<varsStr, varsServer, varsEmb>>
    \/ \E hed \in SettingsValues : DidChangeConfiguration(hed)
           /\ UNCHANGED <<varsStr, varsEmb, varsVal>>

SpecConfiguration == InitValidationSpec /\ [][NextConfiguration]_vars

\* validation passes of the first sidecar that overlap while the document
\* is edited
NextOverlap ==
    \/ \E settings \in PassSettings :
           ValidateNow("file:///ds/a.json", settings)
               /\ UNCHANGED <<varsStr, varsServer, varsEmb>>
    \/ PassSchemaLoads /\ UNCHANGED <<varsStr, varsServer, varsEmb>>
    \/ PassSchemaFails /\ UNCHANGED <<varsStr, varsServer, varsEmb>>
    \/ DocumentEdited("file:///ds/a.json")
           /\ UNCHANGED <<varsStr, varsSchema, varsServer, varsEmb>>

SpecOverlap == InitValidationSpec /\ [][NextOverlap]_vars

\* validation passes and completion requests of two documents with
\* different configured versions
InitVersions ==
    InitVersionsPass /\ InitSchemaManager /\ InitStrIdle /\ InitServerIdle
        /\ InitEmbIdle
NextVersions ==
    \/ \E uri \in SidecarUris :
           ValidateNow(uri, ConfiguredSettings[uri])
               /\ UNCHANGED <<varsStr, varsServer, varsEmb>>
    \/ PassSchemaLoads /\ UNCHANGED <<varsStr, varsServer, varsEmb>>
    \/ PassSchemaFails /\ UNCHANGED <<varsStr, varsServer, varsEmb>>
    \/ \E uri \in SidecarUris :
           CompletionRequest(uri) /\ UNCHANGED <<varsServer, varsEmb>>
    \/ CompletionSchemaReturns /\ UNCHANGED <<varsServer, varsEmb>>

SpecVersions == InitVersions /\ [][NextVersions]_vars

\* completion requests in a partial context, the model load and the
\* extractor calls they start, and changes of the configuration
NextSemanticCompletion ==
    \/ PartialCompletionRequest
    \/ PartialSchemaLoads
    \/ PartialSchemaFails
    \/ LoadModelReturns /\ UNCHANGED <<varsStr, varsSchema, varsServer, varsVal>>
    \/ ExtractorReturns /\ UNCHANGED <<varsStr, varsSchema, varsServer, varsVal>>
    \/ \E hed \in SemanticSettingsValues :
           DidChangeConfiguration(hed) /\ UNCHANGED <<varsStr, varsEmb, varsVal>>

SpecSemanticCompletion == InitEmbeddings /\ [][NextSemanticCompletion]_vars

NextNormalize == NormalizeVersion \/ NormalizeVersionAgain
SpecNormalize == InitNormalize /\ [][NextNormalize]_vars

NextChildTags == GetChildTags
SpecChildTags == InitChildTags /\ [][NextChildTags]_vars

NextCompletion == ProvideCompletions
InitCompletionSpec ==
    InitCompletion /\ InitSchemaManager /\ InitServerIdle /\ InitEmbIdle
        /\ InitValidationIdle
SpecCompletion == InitCompletionSpec /\ [][NextCompletion]_vars

NextDefinitions == FindDefinitionsInDocument
InitDefinitionsSpec ==
    InitDefinitions /\ InitSchemaManager /\ InitServerIdle /\ InitEmbIdle
        /\ InitValidationIdle
SpecDefinitions == InitDefinitionsSpec /\ [][NextDefinitions]_vars

NextParse == ParseJsonForHedStrings \/ ParseTsvForHedStrings
InitParseSpec ==
    InitParse /\ InitSchemaManager /\ InitServerIdle /\ InitEmbIdle
        /\ InitValidationIdle
SpecParse == InitParseSpec /\ [][NextParse]_vars

NextTagSearch == FindTag
SpecTagSearch == InitTagSearch /\ [][NextTagSearch]_vars

NextPlaceholder == RemovePlaceholders
SpecPlaceholder == InitPlaceholder /\ [][NextPlaceholder]_vars

(***************************************************************************)
(* Claims about the string utilities                                       *)
(***************************************************************************)
\* tagName occurs, ignoring case, at 0-based offset i of hedString
OccursAt(hedString, tagName, i) ==
    /\ i + Len(tagName) <= Len(hedString)
    /\ toLowerCase(SubSeq(hedString, i + 1, i + Len(tagName))) = toLowerCase(tagName)

\* start-of-string or a separator/space before offset i
BoundaryBefore(hedString, i) ==
    i = 0 \/ hedString[i] \in {",", "(", ")", " "}

\* end-of-string or a separator/space at offset j
BoundaryAfter(hedString, j) ==
    j = Len(hedString) \/ hedString[j + 1] \in {",", "(", ")", " "}

\* ... or the "/" that starts a child or value path
BoundaryAfterOrSlash(hedString, j) ==
    BoundaryAfter(hedString, j) \/ hedString[j + 1] = "/"

WholeTagAt(hedString, tagName, i) ==
    /\ OccursAt(hedString, tagName, i)
    /\ BoundaryBefore(hedString, i)
    /\ BoundaryAfterOrSlash(hedString, i + Len(tagName))

Contains(s, sub) ==
    \E i \in 0..(Len(s) - Len(sub)) : SubSeq(s, i + 1, i + Len(sub)) = sub

\* s contains a placeholder: "{", one or more characters other than "}", "}"
ContainsPlaceholder(s) ==
    \E i \in 1..Len(s) : \E j \in (i + 2)..Len(s) :
        /\ s[i] = "{"
        /\ s[j] = "}"
        /\ \A k \in (i + 1)..(j - 1) : s[k] # "}"

\* C10: for every input string, placeholder removal yields a string with no
\* placeholder, no dangling (leading, trailing or group-edge) comma, no empty
\* group "()" and no doubled comma; "Tag-a, {col}, Tag-b" becomes
\* "Tag-a, Tag-b".
C10_NoPlaceholderResidue ==
    strOp = "removePlaceholders" =>
        /\ ~ContainsPlaceholder(strOut)
        /\ strOut # <<>> => strOut[1] # "," /\ strOut[Len(strOut)] # ","
        /\ ~Contains(strOut, <<"(", ",">>)
        /\ ~Contains(strOut, <<",", ")">>)
        /\ ~Contains(strOut, <<"(", ")">>)
        /\ ~Contains(strOut, <<",", ",">>)
        /\ strIn = TagAColTagB => strOut = TagATagB

(***************************************************************************)
(* Claims about SchemaManager.getSchema                                    *)
(***************************************************************************)
\* C2: load requests with the same canonical version that are in flight
\* together share one invocation of the schema builder (and so its result).
C2_ConcurrentLoadsCoalesce ==
    \A c1 \in 1..Len(schemaCalls) : \A c2 \in 1..Len(schemaCalls) :
        ( /\ schemaCalls[c1].pc = "building"
          /\ schemaCalls[c2].pc = "building"
          /\ schemaCalls[c1].nv = schemaCalls[c2].nv )
        => schemaCalls[c1].build = schemaCalls[c2].build

\* the canonical form of a version spec; the configured version stands in for
\* a spec that canonicalizes to the empty string
Canonical(version) ==
    IF normalizeVersion(version) = <<>> THEN currentVersion
    ELSE normalizeVersion(version)

C5_CallStep ==
    \A c \in 1..Len(schemaCalls') :
        c > Len(schemaCalls) =>
            LET call == schemaCalls'[c]
                key  == Canonical(call.version)
            IN  /\ call.nv = key
                /\ key \in DOMAIN schemaCache =>
                      /\ call.pc = "returned"
                      /\ call.result = schemaCache[key]
                      /\ builds' = builds
                      /\ schemaCache' = schemaCache
                /\ key \notin DOMAIN schemaCache =>
                      /\ call.pc = "building"
                      /\ builds' = Append(builds, [arg |-> key, state |-> "pending"])

C5_StoreStep ==
    \A c \in 1..Len(schemaCalls) :
        (schemaCalls[c].pc = "building" /\ schemaCalls'[c].pc = "returned") =>
            /\ DOMAIN schemaCache' = DOMAIN schemaCache \cup {schemaCalls[c].nv}
            /\ schemaCache'[schemaCalls[c].nv] = schemaCalls'[c].result
            /\ \A k \in DOMAIN schemaCache \ {schemaCalls[c].nv} :
                   schemaCache'[k] = schemaCache[k]

C5_KeysCanonical ==
    \A k \in DOMAIN schemaCache : k # <<>> /\ normalizeVersion(k) = k

\* C5: load(spec) canonicalizes the spec; when a vocabulary is cached under the
\* canonical string it returns that vocabulary without invoking the builder;
\* otherwise it invokes the builder on the canonical string and stores the
\* result under it.  Every cache key is canonical, so specs with the same
\* canonical form share one entry.
C5_LoadCachesByCanonicalSpec ==
    /\ []C5_KeysCanonical
    /\ [][C5_CallStep /\ C5_StoreStep]_vars

\* a load built and stored a vocabulary, and a load of a differently written
\* spec with the same canonical form was answered from that entry
C5_Witness ==
    \E c1 \in 1..Len(schemaCalls) : \E c2 \in 1..Len(schemaCalls) :
        /\ schemaCalls[c1].pc = "returned" /\ schemaCalls[c1].build > 0
        /\ schemaCalls[c2].pc = "returned" /\ schemaCalls[c2].build = 0
        /\ schemaCalls[c2].result = schemaCalls[c1].result
        /\ schemaCalls[c1].version # schemaCalls[c2].version

C6_FailStep ==
    \A c \in 1..Len(schemaCalls) :
        (schemaCalls[c].pc = "building" /\ schemaCalls'[c].pc # "building") =>
            LET b == schemaCalls[c].build
            IN  builds'[b].state = "failed" =>
                    /\ schemaCalls'[c].pc = "threw"
                    /\ schemaCalls'[c].result = b
                    /\ schemaCache' = schemaCache

C6_OnlyBuiltVocabulariesCached ==
    \A k \in DOMAIN schemaCache :
        /\ schemaCache[k] \in 1..Len(builds)
        /\ builds[schemaCache[k]].state = "ok"
        /\ builds[schemaCache[k]].arg = k

PendingTimers(uri) == {t \in srv.liveTimers : t.uri = uri}

\* C1: every validateDocumentDebounced call for a document resets the
\* document's timer: at most one debounce timer is pending per document, and
\* a callback that runs was scheduled by the latest call for its document, so
\* the validation of a superseded edit never runs.
C1_DebounceFiresOncePerBurst ==
    /\ \A uri \in Uris : Cardinality(PendingTimers(uri)) <= 1
    /\ \A f \in srv.fired : f.call = f.latest

\* C4: a debounce callback that runs was scheduled by a call made since the
\* last close of its document: nothing scheduled for a document before it was
\* closed fires after the close.
C4_NoCallbackAfterClose ==
    \A f \in srv.fired : f.epoch = f.closes

(***************************************************************************)
(* Lazy model load and semantic search (embeddings.ts)                     *)
(***************************************************************************)
\* the _loadModel invocations in flight
LoadsRunning == {k \in 1..Len(emb.loads) : emb.loads[k] = "running"}

\* the call just made in this step needs the embedding model
NeedsModel(call) == call.kind # "findSimilar" \/ call.path = "embedding"

\* at most one _loadModel is in flight, and it is the one this.loading holds
C3_OneLoadInFlight ==
    /\ Cardinality(LoadsRunning) <= 1
    /\ \A k \in LoadsRunning : emb.loading = k

\* a call that took part in load k is suspended while k is in flight and
\* afterwards has observed k's outcome
C3_SharedOutcome ==
    \A c \in 1..Len(emb.calls) :
        LET call == emb.calls[c]
        IN  call.load # 0 =>
                IF emb.loads[call.load] = "running"
                THEN call.pc = "awaitingModel"
                ELSE call.loaded =
                         (IF emb.loads[call.load] = "ok" THEN "true" ELSE "false")

\* a call that needs the model while a load is in flight joins that load and
\* starts no loader; a loader is started only by a call that needs the model
\* when none is in flight, the model is not loaded and embeddings are enabled
C3_CallStep ==
    Len(emb'.calls) > Len(emb.calls) =>
        LET call == emb'.calls[Len(emb'.calls)]
        IN  IF NeedsModel(call) /\ emb.enabled /\ ~emb.modelLoaded
            THEN IF emb.loading # 0
                 THEN emb'.loads = emb.loads /\ call.load = emb.loading
                                             /\ ~call.starter
                 ELSE emb'.loads = Append(emb.loads, "running")
                          /\ call.load = Len(emb'.loads) /\ call.starter
            ELSE emb'.loads = emb.loads /\ call.load = 0

\* C3: the first call that needs the embedding model starts its load, every
\* call made while the load is in flight shares it (the loader is never
\* started twice at once), and all of them observe the load's outcome.
C3_ModelInitShared ==
    /\ [](C3_OneLoadInFlight /\ C3_SharedOutcome)
    /\ [][C3_CallStep]_vars

\* two calls have shared the only load that was ever started
C3_Witness ==
    /\ Len(emb.loads) = 1
    /\ emb.loads[1] # "running"
    /\ \E c1, c2 \in 1..Len(emb.calls) :
           /\ c1 # c2
           /\ emb.calls[c1].load = 1 /\ emb.calls[c1].starter
           /\ emb.calls[c2].load = 1 /\ ~emb.calls[c2].starter
           /\ emb.calls[c1].loaded = emb.calls[c2].loaded

\* the findSimilar calls that have returned for a query that is a keyword
IsKeywordQuery(query) == trim(toLowerCase(query)) \in DOMAIN KEYWORD_INDEX
Targets(query) == KEYWORD_INDEX[trim(toLowerCase(query))]
KeywordCalls ==
    {c \in 1..Len(emb.calls) :
        /\ emb.calls[c].kind = "findSimilar"
        /\ emb.calls[c].pc = "returned"
        /\ IsKeywordQuery(emb.calls[c].query)}

\* C7 as stated: a query that is a curated keyword returns the keyword's
\* target tags in listed order, each at 0.95, with no call to the provider.
C7_KeywordLookupReturnsTargets ==
    \A c \in KeywordCalls :
        LET call == emb.calls[c]
        IN  /\ call.providerCalls = 0
            /\ Len(call.matches) = Len(Targets(call.query))
            /\ \A i \in 1..Len(call.matches) :
                   /\ call.matches[i].tag = Targets(call.query)[i]
                   /\ call.matches[i].similarity = KEYWORD_MATCH_SIMILARITY

\* the targets of the keyword that have an entry in the tag-embedding store
PresentTargets(query) ==
    SelectSeq(Targets(query),
              LAMBDA t : \E i \in 1..Len(emb.tagEmbeddings) :
                             emb.tagEmbeddings[i].k = toLowerCase(t))

\* C7 (amended): a query that is a curated keyword returns those of the
\* keyword's targets that have an entry in the tag-embedding store, in listed
\* order, at most topK of them, each at 0.95, with no call to the provider;
\* when no target has an entry the query is searched by embedding like any
\* other, and when the store is empty the result is empty.
C7_KeywordLookupReturnsPresentTargets ==
    \A c \in KeywordCalls :
        LET call == emb.calls[c]
            present == PresentTargets(call.query)
            n == IF call.topK < Len(present) THEN call.topK ELSE Len(present)
        IN  IF present # <<>>
            THEN /\ call.providerCalls = 0
                 /\ Len(call.matches) = n
                 /\ \A i \in 1..n :
                        /\ toLowerCase(call.matches[i].prefix \o call.matches[i].tag)
                               = toLowerCase(present[i])
                        /\ call.matches[i].similarity = KEYWORD_MATCH_SIMILARITY
            ELSE IF Len(emb.tagEmbeddings) = 0
                 THEN call.matches = <<>> /\ call.providerCalls = 0
                 ELSE call.path = "embedding"

\* "marmoset" has returned [Animal, Animal-agent] at 0.95 without the provider
C7_Witness ==
    \E c \in KeywordCalls :
        /\ emb.calls[c].query = Marmoset
        /\ emb.calls[c].providerCalls = 0
        /\ Len(emb.calls[c].matches) = 2
        /\ emb.calls[c].matches[1].tag = AnimalTag
        /\ emb.calls[c].matches[2].tag = AnimalAgentTag
        /\ \A i \in 1..2 :
               emb.calls[c].matches[i].similarity = KEYWORD_MATCH_SIMILARITY

\* the findSimilar calls that have returned from the embedding path
EmbeddingPathCalls ==
    {c \in 1..Len(emb.calls) :
        /\ emb.calls[c].kind = "findSimilar"
        /\ emb.calls[c].pc = "returned"
        /\ emb.calls[c].path = "embedding"}

ValidatedPasses ==
    {p \in 1..Len(val.passes) :
        val.passes[p].pc = "done" /\ val.passes[p].kind = "validated"}

\* the number of issues the validator reports for the regions before r
RECURSIVE IssuesBefore(_, _)
IssuesBefore(regions, r) ==
    IF r <= 1 THEN 0
    ELSE IssuesBefore(regions, r - 1)
             + Len(validateHedString(regions[r - 1].content))

\* C11: every issue the validator reports for a region gives one diagnostic
\* of the pass, in order; an issue whose bounds cannot be determined gets the
\* range of the whole region, the others the range of their bounds.
C11_EveryIssueBecomesDiagnostic ==
    \A p \in ValidatedPasses :
        LET regions == val.passes[p].regions
            diagnostics == val.passes[p].diagnostics
        IN  /\ Len(diagnostics) = IssuesBefore(regions, Len(regions) + 1)
            /\ \A r \in 1..Len(regions) :
                   LET issues == validateHedString(regions[r].content)
                       base == IssuesBefore(regions, r)
                   IN  \A i \in 1..Len(issues) :
                           /\ diagnostics[base + i].code = issues[i].hedCode
                           /\ diagnostics[base + i].message = issues[i].message
                           /\ issues[i].bounds = <<>> =>
                                  diagnostics[base + i].range = regions[r].range
                           /\ issues[i].bounds # <<>> =>
                                  /\ diagnostics[base + i].range.start.character =
                                         regions[r].contentOffset + issues[i].bounds[1]
                                  /\ diagnostics[base + i].range.end.character =
                                         regions[r].contentOffset + issues[i].bounds[2]

\* a pass over a document with "A, B" at offset 34 has a diagnostic for the
\* issue whose tag is not in the string, with the range of the region, and
\* one with the range of its bounds
C11_Witness ==
    \E p \in ValidatedPasses :
        /\ Len(val.passes[p].regions) = 3
        /\ val.passes[p].regions[3] = HedRegion(HedAB, 34)
        /\ Len(val.passes[p].diagnostics) = 5
        /\ val.passes[p].diagnostics[3].code = "TAG_EXTENDED"
        /\ val.passes[p].diagnostics[3].range = HedRegion(HedAB, 34).range
        /\ val.passes[p].diagnostics[2].range.start.character = 34
        /\ val.passes[p].diagnostics[2].range.end.character = 35

\* the external validator is called on the region's string and throws
ValidatorThrowsOn(region) ==
    /\ trim(region.content) # <<>>
    /\ trim(removePlaceholders(region.content)) # <<>>
    /\ parseHedString(removePlaceholders(region.content)).throws

\* the number of issues the external validator returns for the region's string
ValidatorIssues(region) ==
    IF \/ trim(region.content) = <<>>
       \/ trim(removePlaceholders(region.content)) = <<>>
    THEN 0
    ELSE Len(parseHedString(removePlaceholders(region.content)).issues)

\* one diagnostic for each region on which the validator throws, and one for
\* each issue it returns on the others
RECURSIVE ExpectedDiagnostics(_, _)
ExpectedDiagnostics(regions, r) ==
    IF r > Len(regions) THEN 0
    ELSE (IF ValidatorThrowsOn(regions[r]) THEN 1
          ELSE ValidatorIssues(regions[r]))
             + ExpectedDiagnostics(regions, r + 1)

\* C12: when the external validator throws on a region's string, that string
\* gives exactly one synthetic error diagnostic (on the region's range), the
\* pass still completes, and the other regions of the document are validated
\* all the same.
C12_ValidatorExceptionBecomesOneIssue ==
    \A p \in 1..Len(val.passes) :
        LET pass == val.passes[p]
        IN  (pass.pc = "done" /\ pass.kind # "schemaFailed" /\ pass.regions # <<>>) =>
                /\ pass.kind = "validated"
                /\ Len(pass.diagnostics) = ExpectedDiagnostics(pass.regions, 1)
                /\ \A r \in 1..Len(pass.regions) :
                       ValidatorThrowsOn(pass.regions[r]) =>
                           Cardinality({i \in 1..Len(pass.diagnostics) :
                               /\ pass.diagnostics[i].code = "INTERNAL_ERROR"
                               /\ pass.diagnostics[i].severity = "Error"
                               /\ pass.diagnostics[i].range = pass.regions[r].range}) = 1

\* a pass over a document whose first string makes the validator throw: one
\* INTERNAL_ERROR diagnostic, then the four diagnostics of the last string
C12_Witness ==
    \E p \in ValidatedPasses :
        /\ Len(val.passes[p].regions) = 3
        /\ ValidatorThrowsOn(val.passes[p].regions[1])
        /\ Len(val.passes[p].diagnostics) = 5
        /\ val.passes[p].diagnostics[1].code = "INTERNAL_ERROR"
        /\ val.passes[p].diagnostics[5].code = "TAG_INVALID"

\* the passes whose getSchema call threw
SchemaFailedPasses ==
    {p \in 1..Len(val.passes) :
        /\ val.passes[p].call # 0
        /\ schemaCalls[val.passes[p].call].pc = "threw"}

\* the diagnostic is the document-level one for a schema that failed to load
IsSchemaLoadDiagnostic(d) ==
    /\ d.severity = "Error"
    /\ d.range.start = [line |-> 0, character |-> 0]
    /\ d.range.end = [line |-> 0, character |-> 0]
    /\ d.message = "Failed to load HED schema"

\* C13: when the vocabulary cannot be loaded for a pass, the pass ends
\* without validating any region and its result is exactly one document-level
\* diagnostic.
C13_SchemaFailureGivesOneDiagnostic ==
    \A p \in SchemaFailedPasses :
        /\ val.passes[p].pc = "done"
        /\ val.passes[p].kind = "schemaFailed"
        /\ Len(val.passes[p].diagnostics) = 1
        /\ IsSchemaLoadDiagnostic(val.passes[p].diagnostics[1])
        /\ val.published[val.passes[p].uri].pass = p =>
               /\ Len(val.published[val.passes[p].uri].diagnostics) = 1
               /\ IsSchemaLoadDiagnostic(val.published[val.passes[p].uri].diagnostics[1])

\* the schema failed to load for a pass over a document with three regions,
\* two of which would have given diagnostics
C13_Witness ==
    \E p \in SchemaFailedPasses :
        /\ Len(val.passes[p].regions) = 3
        /\ ExpectedDiagnostics(val.passes[p].regions, 1) = 5
        /\ val.published[val.passes[p].uri].pass = p
        /\ Len(val.published[val.passes[p].uri].diagnostics) = 1

(***************************************************************************)
(* normalizeVersion (SpecNormalize)                                        *)
(***************************************************************************)
\* C14: normalizeVersion(normalizeVersion(s)) = normalizeVersion(s) for every
\* version string s.
C14_NormalizeIdempotent ==
    strOp = "normalizeVersionAgain" => strOut = strTag

\* "8, :" was normalized to "8,:", and normalizing that gave "8,:" again
C14_Witness ==
    /\ strOp = "normalizeVersionAgain"
    /\ strIn = <<"8", ",", " ", ":">>
    /\ strTag = <<"8", ",", ":">>
    /\ strOut = <<"8", ",", ":">>

(***************************************************************************)
(* detectSchemaVersion and its cache (SpecValidation)                      *)
(***************************************************************************)
\* this step starts a pass that calls detectSchemaVersion(uri)
DetectionRuns(uri) ==
    /\ Len(val'.passes) = Len(val.passes) + 1
    /\ val'.passes[Len(val'.passes)].uri = uri
    /\ val'.passes[Len(val'.passes)].regions # <<>>

\* the pass this step starts
StartedPass == val'.passes[Len(val'.passes)]

\* C15 as stated: the result of every detection is cached under the locator,
\* so that no later detection for it walks the directory tree.
C15_DetectionResultCached ==
    [][\A uri \in SidecarUris :
           DetectionRuns(uri) =>
               /\ uri \in DOMAIN workspaceVersionCache'
               /\ uri \in DOMAIN workspaceVersionCache => ~StartedPass.walked]_vars

\* C15, amended: a version that detection finds is cached under the
\* locator, and while the entry is there every detection for the locator
\* returns it without walking the directory tree, whatever the files now
\* say; a detection that finds no version caches nothing and walks the tree.
C15_DetectedVersionCached ==
    [][\A uri \in SidecarUris :
           DetectionRuns(uri) =>
               IF uri \in DOMAIN workspaceVersionCache
               THEN /\ ~StartedPass.walked
                    /\ StartedPass.detected = workspaceVersionCache[uri]
                    /\ workspaceVersionCache' = workspaceVersionCache
               ELSE /\ StartedPass.walked
                    /\ StartedPass.detected # Null =>
                           /\ uri \in DOMAIN workspaceVersionCache'
                           /\ workspaceVersionCache'[uri] = StartedPass.detected
                    /\ StartedPass.detected = Null =>
                           workspaceVersionCache' = workspaceVersionCache]_vars

\* a second pass for the first sidecar took the detected version "8.3.0"
\* from the cache although a dataset_description.json with "8.4.0" has since
\* been written next to the document
C15_Witness ==
    \E p \in 1..Len(val.passes) :
        /\ val.passes[p].uri = "file:///ds/a.json"
        /\ val.passes[p].call # 0
        /\ ~val.passes[p].walked
        /\ val.passes[p].detected = V830
        /\ datasetFiles["file:///ds/a.json"][1] = WrittenDescription

(***************************************************************************)
(* The caches and configuration changes (SpecConfiguration)                *)
(***************************************************************************)
\* C16: the shared caches are cleared while the process runs, on the event
\* the statement names, a configuration change: the step that takes the new
\* settings leaves no entry in the vocabulary cache or in the detected-version
\* cache, so that the next request derives its value again.
C16_ConfigurationChangeClearsCaches ==
    [][globalSettings' # globalSettings =>
           /\ schemaCache' = EmptyMap
           /\ workspaceVersionCache' = EmptyMap]_vars

(***************************************************************************)
(* Save events (Spec)                                                      *)
(***************************************************************************)
\* the validation pass a save of uri starts
SavePass(uri) == [uri |-> uri, source |-> "save"]

\* getDocumentSettings(uri) returns settings that are already there: the
\* global settings, or the answered configuration request of the document
SettingsReady(uri) ==
    \/ ~hasConfigurationCapability
    \/ /\ srv.documentSettings[uri] # 0
       /\ srv.promises[srv.documentSettings[uri]].state = "fulfilled"

\* the configuration request of the document failed
SettingsFailed(uri) ==
    /\ hasConfigurationCapability
    /\ srv.documentSettings[uri] # 0
    /\ srv.promises[srv.documentSettings[uri]].state = "rejected"

SearchCalls ==
    {c \in EmbeddingPathCalls : emb.calls[c].embedding # <<>>}

\* the combined scores of search call c, by tag
ScoresOf(c) == combinedScores(emb, emb.calls[c].embedding)

\* the score (in units of 10^-7) a tag gets from a direct match alone
DirectOnlyScore(directSimilarity) == directSimilarity * 100000

\* C18: a tag with keyword votes and a direct match has a combined score that
\* is at least the score of the direct match alone.
C18_CombinedAtLeastDirect ==
    \A c \in SearchCalls :
        \A i \in 1..Len(ScoresOf(c)) :
            LET data == ScoresOf(c)[i].v
            IN  (data.keywordVotes > 0 /\ data.directSimilarity > 0) =>
                    data.combinedScore >= DirectOnlyScore(data.directSimilarity)

\* a search in which Animal has two keyword votes and the direct similarity
\* 1.00, and another tag has one vote and a direct similarity below 1
C18_Witness ==
    \E c \in SearchCalls :
        /\ \E i \in 1..Len(ScoresOf(c)) :
               /\ ScoresOf(c)[i].k = AnimalTag
               /\ ScoresOf(c)[i].v.keywordVotes = 2
               /\ ScoresOf(c)[i].v.directSimilarity = 100
        /\ \E i \in 1..Len(ScoresOf(c)) :
               /\ ScoresOf(c)[i].v.keywordVotes = 1
               /\ ScoresOf(c)[i].v.directSimilarity > 0
               /\ ScoresOf(c)[i].v.directSimilarity < 100

(***************************************************************************)
(* A model that fails to load (SpecEmbeddings)                             *)
(***************************************************************************)
\* a _loadModel invocation has failed
ModelLoadFailed == \E k \in 1..Len(emb.loads) : emb.loads[k] = "failed"

\* the tags the keyword index names for the query that have an embedding
KeywordTargetsPresent(query) ==
    /\ trim(toLowerCase(query)) \in DOMAIN KEYWORD_INDEX
    /\ \E i \in 1..Len(KEYWORD_INDEX[trim(toLowerCase(query))]) :
           OHas(emb.tagEmbeddings,
                toLowerCase(KEYWORD_INDEX[trim(toLowerCase(query))][i]))

Returned(shortForm, parent) ==
    \E i \in 1..Len(strOut) :
        strOut[i].shortForm = shortForm /\ strOut[i].parent = parent

\* the entry is a child of the parent name, case-insensitively
IsChildOf(entry, parent) ==
    entry.parent # Null /\ toLowerCase(entry.parent) = toLowerCase(parent)

\* the prefix the tags of namespace i carry: none for the base namespace
NamespacePrefix(i) ==
    IF strTag.schemas[i].prefix = <<>> THEN <<>>
    ELSE strTag.schemas[i].prefix \o <<":">>

ContextAnalysed == strOp = "provideCompletions" /\ strOut.context # <<>>

\* the character immediately before the cursor is c
CharBeforeCursor(c) ==
    /\ 1 <= strTag.offset /\ strTag.offset <= Len(strIn)
    /\ strIn[strTag.offset] = c

\* the index of the last character before the slash that is not white space
BeforeSlash == SkipWsBack(strIn, strTag.offset - 1)

\* the name (letters, digits, "_", "-") that ends at index k
NameEndingAt(k) ==
    LET i == CHOOSE j \in 1..k :
                 /\ \A m \in j..k : IsNameChar(strIn[m])
                 /\ (j = 1 \/ ~IsNameChar(strIn[j - 1]))
    IN  SubSeq(strIn, i, k)

\* the labels of the vocabulary tags whose parent is named `parent`
ChildLabels(parent) ==
    LET base == CompletionSchemas.schemas[1].tags
        library == CompletionSchemas.schemas[2].tags
    IN  {base[i].name : i \in {j \in 1..Len(base) :
             base[j].parent # Null
                 /\ toLowerCase(base[j].parent) = toLowerCase(parent)}}
        \cup
        {ScPrefix \o <<":">> \o library[i].name :
             i \in {j \in 1..Len(library) :
                 /\ library[j].parent # Null
                 /\ toLowerCase(library[j].parent) = toLowerCase(parent)
                 /\ library[j].inLibrary # Null}}

ItemLabels == {strOut.items[i].label : i \in 1..Len(strOut.items)}

CountBeforeCursor(c) ==
    Cardinality({i \in 1..Len(strIn) : i <= strTag.offset /\ strIn[i] = c})

BraceDepth == CountBeforeCursor("{") - CountBeforeCursor("}")

\* C22: a completion request at an offset is treated as inside a placeholder
\* (no context is analysed) exactly when the prefix of the content up to the
\* offset holds more "{" than "}", and it then returns no candidates.
C22_NoCompletionInsidePlaceholder ==
    strOp = "provideCompletions"
        => /\ (strOut.context = <<>>) <=> (BraceDepth > 0)
           /\ BraceDepth > 0 => strOut.items = <<>>

\* the request inside "{a}", after the "a", was answered with no candidates,
\* where the tag analysis would have taken "{a" for a partial tag
C22_Witness ==
    /\ strOp = "provideCompletions"
    /\ strIn = <<"{", "a", "}">> /\ strTag.offset = 2
    /\ BraceDepth = 1
    /\ strOut.items = <<>>
    /\ analyzeCompletionContext(strIn, strTag.offset).type = "partial"

(***************************************************************************)
(* C24: one entry per defined name                                         *)
(***************************************************************************)
\* the names the document defines, and whether a name is defined with a
\* placeholder somewhere in it
DefinedNames ==
    {strTag[i].name : i \in {j \in 1..Len(strTag) : strTag[j].name # <<>>}}
DefinedWithPlaceholder(name) ==
    \E i \in 1..Len(strTag) : strTag[i].name = name /\ strTag[i].hasPlaceholder

\* the entries found for a name
EntriesNamed(name) == {i \in 1..Len(strOut) : strOut[i].v.name = name}

\* C24: the definitions found in a document hold exactly one entry for each
\* defined name, and when the name is defined both with and without a
\* placeholder, in whatever order, the entry kept is the one with the
\* placeholder.
C24_OneEntryPreferringPlaceholder ==
    strOp = "findDefinitionsInDocument"
        => \A name \in DefinedNames :
              /\ Cardinality(EntriesNamed(name)) = 1
              /\ \A i \in EntriesNamed(name) :
                     strOut[i].v.hasPlaceholder = DefinedWithPlaceholder(name)

(***************************************************************************)
(* C23: candidates for defined names after Def/ and Def-expand/            *)
(***************************************************************************)
\* the request was answered in a child context under Def or Def-expand
DefinitionReferenceContext ==
    /\ ContextAnalysed
    /\ strOut.context[1].type = "child"
    /\ IsDefinitionReference(strOut.context[1].parentTag)

\* the document defines `name` with a placeholder: one of its HED strings is
\* the group (Definition/name/#, (a))
DefinitionRequiresValue(name) ==
    \E r \in 1..Len(strTag.regions) :
        strTag.regions[r]
            = DefinitionOpen \o name \o <<"/", "#", ",", " ", "(", "a", ")", ")">>

\* C23: under Def/ or Def-expand/, the candidate for a defined name whose
\* definition requires a placeholder value is a snippet that accepts the
\* value, and the candidate for a name defined without one is plain text.
C23_PlaceholderDefinitionGivesSnippet ==
    DefinitionReferenceContext
        => \A i \in 1..Len(strOut.items) :
              strOut.items[i].kind = "Reference"
                  => strOut.items[i].insertTextFormat
                         = (IF DefinitionRequiresValue(strOut.items[i].label)
                            THEN "Snippet" ELSE "PlainText")

(***************************************************************************)
(* C25: the ranking of the candidates of a partial context                 *)
(***************************************************************************)
\* the request was answered in a partial context with a prefix
PartialContext ==
    /\ ContextAnalysed
    /\ strOut.context[1].type = "partial"
    /\ strOut.context[1].prefix # <<>>

\* the source of a candidate: 1 direct match, 2 extension suggestion,
\* 3 semantic match, 4 the "not found" hint
TierOf(item) ==
    IF item.kind = "Value" THEN 1
    ELSE IF item.kind = "Snippet" THEN 2
    ELSE IF item.kind = "Reference" THEN 3 ELSE 4

\* the vocabulary entries with the short form they are offered under
OfferedEntries ==
    UNION {{[shortForm |-> (IF CompletionSchemas.schemas[s].prefix = <<>>
                            THEN <<>>
                            ELSE CompletionSchemas.schemas[s].prefix \o <<":">>)
                               \o CompletionSchemas.schemas[s].tags[i].name,
             entry |-> CompletionSchemas.schemas[s].tags[i]] :
                i \in 1..Len(CompletionSchemas.schemas[s].tags)} :
           s \in 1..Len(CompletionSchemas.schemas)}

\* the score a candidate has within its tier: a direct match scores 1 when
\* the name starts with the prefix and 0 when it only contains it; an
\* extension suggestion has the match score of its parent; a semantic match
\* has its similarity
ScoreOf(item, prefix) ==
    IF TierOf(item) = 1
    THEN LET e == CHOOSE o \in OfferedEntries : o.shortForm = item.label
         IN  IF startsWith(toLowerCase(e.entry.name), toLowerCase(prefix))
             THEN 1 ELSE 0
    ELSE IF TierOf(item) = 2
    THEN LET e == CHOOSE o \in OfferedEntries :
                      o.shortForm \o <<"/">> \o extensionName(prefix)
                          = item.label
         IN  matchScore(splitWords(toLowerCase(prefix), <<>>),
                        toLowerCase(e.entry.name),
                        toLowerCase(e.entry.description))
    ELSE IF TierOf(item) = 3
    THEN LET k == CHOOSE j \in 1..Len(strTag.found) :
                      strTag.found[j].prefix \o strTag.found[j].tag = item.label
         IN  strTag.found[k].similarity
    ELSE 0

\* candidate a is ranked before candidate b: clients order by sortText
RankedBefore(a, b) == stringLess(a.sortText, b.sortText)

\* C25: in a partial context every direct match is ranked before every
\* extension suggestion and every extension suggestion before every
\* semantic match, and within a tier a candidate with a higher score is
\* ranked before one with a lower score.
C25_RankedByTierThenScore ==
    PartialContext
        => \A i, j \in 1..Len(strOut.items) :
              LET a == strOut.items[i]
                  b == strOut.items[j]
              IN  /\ TierOf(a) < TierOf(b) => RankedBefore(a, b)
                  /\ (/\ TierOf(a) = TierOf(b)
                      /\ ScoreOf(a, strOut.context[1].prefix)
                             > ScoreOf(b, strOut.context[1].prefix))
                         => RankedBefore(a, b)
(***************************************************************************)
(* C26: the limit on the diagnostics sent                                  *)
(***************************************************************************)
\* the pass whose diagnostics are the ones published for uri
PublishedPass(uri) == val.passes[val.published[uri].pass]

\* C26: the diagnostics published for a document by a validation pass are
\* never more than the maxNumberOfProblems the pass was configured with.
C26_DiagnosticsCapped ==
    \A uri \in SidecarUris :
        val.published[uri].pass # 0
            => Len(val.published[uri].diagnostics)
                   <= PublishedPass(uri).settings.maxNumberOfProblems

\* a pass that found more problems than its limit has published exactly
\* the limit
C26_Witness ==
    \E uri \in SidecarUris :
        /\ val.published[uri].pass # 0
        /\ Len(PublishedPass(uri).diagnostics)
               > PublishedPass(uri).settings.maxNumberOfProblems
        /\ Len(val.published[uri].diagnostics)
               = PublishedPass(uri).settings.maxNumberOfProblems

(***************************************************************************)
(* C27: overlapping validation passes of one document                      *)
(***************************************************************************)
\* the passes started for uri, and the one started last
PassesOf(uri) == {p \in 1..Len(val.passes) : val.passes[p].uri = uri}
LastPassOf(uri) == CHOOSE p \in PassesOf(uri) : \A q \in PassesOf(uri) : q <= p

\* every pass started has finished
AllPassesFinished == \A p \in 1..Len(val.passes) : val.passes[p].pc = "done"

\* C27: once all the validation passes of a document have finished, the
\* diagnostics published for it are those of the pass that started last; an
\* older pass never overwrites the result of a newer one.
C27_LastStartedPassPublishedLast ==
    AllPassesFinished
        => \A uri \in SidecarUris :
              PassesOf(uri) # {}
                  => val.published[uri].diagnostics
                         = slice(val.passes[LastPassOf(uri)].diagnostics,
                                 val.passes[LastPassOf(uri)].settings
                                     .maxNumberOfProblems)

(***************************************************************************)
(* C28: the version used for a document                                    *)
(***************************************************************************)
\* the version configured for a document, as setCurrentVersion completes it
ConfiguredVersion(uri) == setCurrentVersion(ConfiguredSettings[uri].schemaVersion)

\* the version a validation pass of the document is to use: the detected
\* version (with the library schemas when it names none), else the
\* configured one
VersionFor(uri, detected) ==
    IF detected = Null THEN ConfiguredVersion(uri)
    ELSE IF includes(detected, ":") THEN detected
    ELSE join(<<detected>> \o LIBRARY_SCHEMAS, ",")

\* the versions a document's own requests can leave in the schema manager:
\* the initial default and the document's configured version
OwnVersions(uri) == {DEFAULT_FULL_VERSION, ConfiguredVersion(uri)}

\* C28: a validation pass asks for the document's detected version or, when
\* none is detected, for the version configured for that document; and the
\* version a completion request of a document asks for is one the document's
\* own requests determine, never one left behind by the validation of
\* another document.
C28_VersionPerDocument ==
    /\ \A p \in 1..Len(val.passes) :
           val.passes[p].call # 0
               => schemaCalls[val.passes[p].call].version
                      = VersionFor(val.passes[p].uri, val.passes[p].detected)
    /\ strOp = "onCompletion" => strOut \in OwnVersions(strIn[1])

(***************************************************************************)
(* C29: region content and document offsets                                *)
(***************************************************************************)
\* the document has been parsed for its HED regions
Parsed == strOp \in {"parseJsonForHedStrings", "parseTsvForHedStrings"}

\* C29: for every region extracted from a JSON or tabular document and
\* every index k into its content, the character of the document at offset
\* contentOffset + k is the character content[k].
C29_ContentAlignedWithDocument ==
    Parsed
        => \A r \in 1..Len(strOut) :
              \A k \in 0..(Len(strOut[r].content) - 1) :
                  /\ strOut[r].contentOffset + k < Len(strIn)
                  /\ strIn[strOut[r].contentOffset + k + 1]
                         = strOut[r].content[k + 1]

(***************************************************************************)
(* C30: semantic search disabled                                           *)
(***************************************************************************)
\* the calls made to the embedding provider so far
RECURSIVE ProviderCallsFrom(_, _)
ProviderCallsFrom(E, c) ==
    IF c > Len(E.calls) THEN 0
    ELSE E.calls[c].providerCalls + ProviderCallsFrom(E, c + 1)

====
